---- MODULE Spec2Model ----
(***************************************************************************)
(* Tyomaat.fi: the saved-search digest job (GET /api/digests), the store   *)
(* it reads and writes (saved_searches, projects), the watchlist edits of  *)
(* the watchlist page and the project inserts of the dashboard.            *)
(*                                                                         *)
(* Time is in milliseconds, as Date.now() gives it.  A timestamp column    *)
(* holds the millisecond value: toISOString() prints exactly the           *)
(* millisecond value and new Date(iso).getTime() reads it back, so the     *)
(* store keeps the value the client computed.                              *)
(***************************************************************************)
EXTENDS Integers, Sequences, FiniteSets, TLC

VARIABLES now, env, saved_searches, projects, runs, outbox, edits, mw, catalog,
          watchlist

vars ==
    <<now, env, saved_searches, projects, runs, outbox, edits, mw, catalog, watchlist>>

-----------------------------------------------------------------------------
(* Bounds of the model. *)

MaxTicks == 2
MaxInvocations == 2
MaxEdits == 1
MaxOverlapTicks == 1
MaxEditTicks == 1
MaxProjects == 32
MaxRows == 32
MaxTwiceTicks == 1

-----------------------------------------------------------------------------
(* Values. *)

\* JS null of a timestamp column (last_sent_at: string | null).
NullTime == -1
\* JS null / undefined of a string.
Null == "<null>"
Undefined == "<undefined>"
\* JS null of a text (a sequence of one-character strings).
NullText == <<"<null>">>
UndefinedText == <<"<undefined>">>

day == 24 * 60 * 60 * 1000

\* projects.slice(0, 30)
ListLimit == 30

\* The clock advances one day at a time from StartNow.
TickMs == day
StartNow == 10 * day

WatchIds == {"w1", "w2"}
WatchOrder == <<"w1", "w2">>
\* Project ids: the rows of a small deployment, and of one with more matches
\* than a digest lists.
ProjIds == 1..2
ManyProjIds == 1..MaxProjects
RunIds == {"r1", "r2"}
NoRow == [absent |-> TRUE]

\* The name a watch is saved under.
WatchName == <<"V", "a", "h", "t", "i">>

Frequencies == {"daily", "weekly"}

NoFilters == [q |-> NullText, region |-> Null, city |-> Null, phase |-> Null,
              property_type |-> Null]
FilterChoices == {NoFilters, [NoFilters EXCEPT !.region = "Uusimaa"]}

Secrets == {Null, "", "wrong", "s3cret"}

-----------------------------------------------------------------------------
(* Pure functions of the digest route. *)

isDueStrict(freq, lastSentAt, nowMs) ==
    IF lastSentAt = NullTime THEN TRUE
    ELSE LET delta == IF freq = "daily" THEN day ELSE 7 * day
         IN  nowMs - lastSentAt > delta

isDue(freq, lastSentAt, nowMs) ==
    IF lastSentAt = NullTime THEN TRUE
    ELSE LET last == lastSentAt
             delta == IF freq = "daily" THEN day ELSE 7 * day
         IN  nowMs - last >= delta

\* const since = w.last_sent_at ? new Date(w.last_sent_at) : new Date(Date.now() - ...)
sinceOf(w, nowMs) ==
    IF w.last_sent_at # NullTime
    THEN w.last_sent_at
    ELSE nowMs - (IF w.frequency = "daily" THEN 24 ELSE 7) * 60 * 60 * 1000

\* JS truthiness of a filter field: null, undefined and "" are falsy.
Truthy(s) == s # Null /\ s # Undefined /\ s # ""

\* The text term: trimmed, matched case-insensitively as a substring (ilike
\* "%needle%") of name, developer or builder.  Texts are sequences of
\* one-character strings.
UpperCase == <<"A", "B", "C", "D", "E", "F", "G", "H", "I", "J", "K", "L", "M",
              "N", "O", "P", "Q", "R", "S", "T", "U", "V", "W", "X", "Y", "Z">>
LowerCase == <<"a", "b", "c", "d", "e", "f", "g", "h", "i", "j", "k", "l", "m",
              "n", "o", "p", "q", "r", "s", "t", "u", "v", "w", "x", "y", "z">>

Lower(c) ==
    IF \E k \in 1..Len(UpperCase) : UpperCase[k] = c
    THEN LowerCase[CHOOSE k \in 1..Len(UpperCase) : UpperCase[k] = c]
    ELSE c

LowerText(t) == [k \in 1..Len(t) |-> Lower(t[k])]

RECURSIVE TrimLeft(_)
TrimLeft(t) == IF t # <<>> /\ Head(t) = " " THEN TrimLeft(Tail(t)) ELSE t

RECURSIVE TrimRight(_)
TrimRight(t) ==
    IF t # <<>> /\ t[Len(t)] = " " THEN TrimRight(SubSeq(t, 1, Len(t) - 1)) ELSE t

Trim(t) == TrimRight(TrimLeft(t))

Contains(hay, needle) ==
    \E k \in 0..(Len(hay) - Len(needle)) :
        SubSeq(hay, k + 1, k + Len(needle)) = needle

\* The pattern match of LIKE: % stands for any run of characters and _ for
\* any one character.
RECURSIVE LikeMatch(_, _)
LikeMatch(text, pat) ==
    IF pat = <<>> THEN text = <<>>
    ELSE IF Head(pat) = "%"
    THEN \E k \in 0..Len(text) : LikeMatch(SubSeq(text, k + 1, Len(text)), Tail(pat))
    ELSE IF text = <<>> THEN FALSE
    ELSE /\ (Head(pat) = "_" \/ Head(pat) = Head(text))
         /\ LikeMatch(Tail(text), Tail(pat))

\* The term taken as literal text: no character of it is a wildcard.
ilikeLiteral(field, needle) ==
    /\ field # NullText
    /\ Contains(LowerText(field), LowerText(needle))

\* column.ilike."%needle%": a null column never matches; the term is part of
\* the pattern as typed.
ilike(field, needle) ==
    /\ field # NullText
    /\ LikeMatch(LowerText(field), <<"%">> \o LowerText(needle) \o <<"%">>)

\* TRUE when project row p passes the filters applyProjectFilters adds.  A
\* filters column that holds no object is a record without the field q.
applyProjectFilters(p, filters) ==
    IF "q" \notin DOMAIN filters THEN TRUE
    ELSE /\ Truthy(filters.region) => p.region = filters.region
         /\ Truthy(filters.city) => p.city = filters.city
         /\ Truthy(filters.phase) => p.phase = filters.phase
         /\ Truthy(filters.property_type) => p.property_type = filters.property_type
         /\ (filters.q # NullText /\ Trim(filters.q) # <<>>) =>
                LET needle == Trim(filters.q)
                IN  \/ ilike(p.name, needle)
                    \/ ilike(p.developer, needle)
                    \/ ilike(p.builder, needle)

\* from("projects").eq("is_public", true).gt("created_at", since) + filters:
\* the rows the query selects.
matchingProjects(since, filters) ==
    {p \in DOMAIN projects :
        /\ projects[p] # NoRow
        /\ projects[p].is_public
        /\ projects[p].created_at > since
        /\ applyProjectFilters(projects[p], filters)}

\* .order("created_at", { ascending: false }): rows of one created_at come
\* in an order the store picks.
RECURSIVE newestFirst(_)
newestFirst(S) ==
    IF S = {} THEN <<>>
    ELSE LET m == CHOOSE x \in S :
                    \A y \in S : projects[x].created_at >= projects[y].created_at
         IN  <<m>> \o newestFirst(S \ {m})

\* The answer of the project query: the ids of the rows, newest first.
projectsQuery(since, filters) == newestFirst(matchingProjects(since, filters))

\* The comparison alone, without the test for a missing or empty secret.
authorizedNoEmptyCheck(secret) == secret = env.CRON_SECRET

\* The check with only the absent parameter rejected, an empty one compared.
authorizedNullOnly(secret) == secret # Null /\ secret = env.CRON_SECRET

\* if (!secret || secret !== process.env.CRON_SECRET) -> 401
authorized(secret) ==
    ~(secret = Null \/ secret = "") /\ secret = env.CRON_SECRET

\* The configuration checks with the one of the email key left out.
missingConfigNoResend ==
    \/ ~Truthy(env.NEXT_PUBLIC_SUPABASE_URL)
    \/ ~Truthy(env.SUPABASE_SERVICE_ROLE_KEY)

\* if (!supabaseUrl) ... if (!serviceRoleKey) ... if (!resendKey) -> 500
missingConfig ==
    \/ ~Truthy(env.NEXT_PUBLIC_SUPABASE_URL)
    \/ ~Truthy(env.SUPABASE_SERVICE_ROLE_KEY)
    \/ ~Truthy(env.RESEND_API_KEY)

-----------------------------------------------------------------------------
(* One invocation of GET /api/digests: the handler's locals, and a log of  *)
(* what the store, the auth service and the email provider answered.       *)

NoAnswers == [q |-> "none", user |-> "none", send |-> "none", up |-> "none"]

IdleRun ==
    [pc |-> "idle", inv |-> 0, secret |-> Null, debug |-> FALSE, status |-> 0,
     watches |-> <<>>, i |-> 1, checked |-> 0, sent |-> 0,
     found |-> <<>>,
     dueAt |-> [w \in WatchIds |-> NullTime],
     since |-> [w \in WatchIds |-> NullTime],
     ts |-> [w \in WatchIds |-> NullTime],
     outcome |-> [w \in WatchIds |-> "none"],
     debugRows |-> <<>>,
     ans |-> [w \in WatchIds |-> NoAnswers],
     fatal |-> "none"]

\* The states in which the handler is suspended in an await.
AwaitPcs == {"fetch", "query", "update0", "lookup", "send", "update1"}

\* A loop that takes the fetched watches last to first.
curWatchBackwards(run) == run.watches[Len(run.watches) + 1 - run.i]

\* The watch of the current loop iteration.
curWatch(run) == run.watches[run.i]

\* return NextResponse.json(...): the handler ends.
respond(run, status) ==
    [run EXCEPT !.pc = "done", !.status = status, !.found = <<>>]

\* debugRows.push({...}) when debug is on; projects_found: null is -1.
pushDebug(run, due, since, projects_found, note) ==
    IF run.debug
    THEN [run EXCEPT !.debugRows =
             Append(@, [watch_id |-> curWatch(run).id, due |-> due, since |-> since,
                        projects_found |-> projects_found, note |-> note])]
    ELSE run

\* The loop head without the due check: every watch goes on to its query.
loopFromNoDueCheck(run, nowMs) ==
    IF run.i > Len(run.watches)
    THEN respond(run, 200)
    ELSE [run EXCEPT !.checked = @ + 1, !.pc = "query",
                     !.dueAt[curWatch(run).id] = nowMs,
                     !.since[curWatch(run).id] = sinceOf(curWatch(run), nowMs)]

\* The synchronous part of the loop from its head: checked++, the due check
\* and the window, for watch i and on through every watch that is not due,
\* up to the next await (the project query) or the response.
RECURSIVE loopFrom(_, _)
loopFrom(run, nowMs) ==
    IF run.i > Len(run.watches)
    THEN respond(run, 200)
    ELSE LET w == curWatch(run)
             due == isDue(w.frequency, w.last_sent_at, nowMs)
         IN  IF ~due
             THEN loopFrom(
                    [pushDebug(run, FALSE, NullTime, -1, "Skipped (not due)")
                        EXCEPT !.checked = @ + 1, !.i = @ + 1,
                               !.dueAt[w.id] = nowMs,
                               !.outcome[w.id] = "notdue"],
                    nowMs)
             ELSE [run EXCEPT !.checked = @ + 1, !.pc = "query",
                              !.dueAt[w.id] = nowMs,
                              !.since[w.id] = sinceOf(w, nowMs)]

\* A failure that ends the loop instead of one iteration.
abortLoop(run, tag, nowMs) ==
    respond([run EXCEPT !.outcome[curWatch(run).id] = tag], 200)

\* console.error(...); continue;  -- the per-watch failure paths.
skipWatch(run, tag, nowMs) ==
    loopFrom([run EXCEPT !.outcome[curWatch(run).id] = tag, !.i = @ + 1,
                         !.found = <<>>],
             nowMs)

\* continue / the end of the loop body, on the paths that are no failure.
nextWatch(run, tag, nowMs) ==
    loopFrom([run EXCEPT !.outcome[curWatch(run).id] = tag, !.i = @ + 1,
                         !.found = <<>>],
             nowMs)

\* The fetch without the filter on is_enabled.
RECURSIVE enabledFromAll(_)
enabledFromAll(order) ==
    IF order = <<>> THEN <<>>
    ELSE LET id == Head(order)
             row == saved_searches[id]
         IN  IF row # NoRow
             THEN <<[id |-> id, user_id |-> row.user_id,
                     filters |-> row.filters, frequency |-> row.frequency,
                     is_enabled |-> row.is_enabled,
                     last_sent_at |-> row.last_sent_at]>> \o enabledFromAll(Tail(order))
             ELSE enabledFromAll(Tail(order))

\* select(...).eq("is_enabled", true): the enabled rows, as the handler's Watch[].
RECURSIVE enabledFrom(_)
enabledFrom(order) ==
    IF order = <<>> THEN <<>>
    ELSE LET id == Head(order)
             row == saved_searches[id]
         IN  IF row # NoRow /\ row.is_enabled
             THEN <<[id |-> id, user_id |-> row.user_id,
                     filters |-> row.filters, frequency |-> row.frequency,
                     is_enabled |-> row.is_enabled,
                     last_sent_at |-> row.last_sent_at]>> \o enabledFrom(Tail(order))
             ELSE enabledFrom(Tail(order))

\* An update that gives way to a later timestamp already stored.
writeLastSentIfNewer(id, ts) ==
    IF saved_searches[id] = NoRow \/ saved_searches[id].last_sent_at > ts
    THEN saved_searches
    ELSE [saved_searches EXCEPT ![id].last_sent_at = ts]

\* An update the store acknowledges without applying it.
writeLastSentDropped(id, ts) == saved_searches

\* update({ last_sent_at: ts }).eq("id", id), as the store applies it.
writeLastSent(id, ts) ==
    IF saved_searches[id] = NoRow THEN saved_searches
    ELSE [saved_searches EXCEPT ![id].last_sent_at = ts]

\* if (wErr) return 500; let checked = 0; let sent = 0; for (const w of watches) ...
afterFetch(run, wErr, rows, nowMs) ==
    IF wErr THEN respond(run, 500)
    ELSE loopFrom([run EXCEPT !.watches = rows, !.i = 1], nowMs)

\* An empty result skipped without the update of last_sent_at.
afterQuerySkipZero(run, pErr, rows, nowMs) ==
    IF pErr
    THEN skipWatch(pushDebug(run, TRUE, run.since[curWatch(run).id], -1,
                             "Projects query error"), "qerr", nowMs)
    ELSE IF run.debug
    THEN nextWatch(pushDebug(run, TRUE, run.since[curWatch(run).id],
                             Len(rows), ""), "debug", nowMs)
    ELSE IF rows = <<>>
    THEN nextWatch(run, "zero", nowMs)
    ELSE [run EXCEPT !.pc = "lookup", !.found = rows]

\* The debug flag ignored after the query.
afterQueryNoDebug(run, pErr, rows, nowMs) ==
    IF pErr
    THEN skipWatch(pushDebug(run, TRUE, run.since[curWatch(run).id], -1,
                             "Projects query error"), "qerr", nowMs)
    ELSE IF rows = <<>>
    THEN [run EXCEPT !.pc = "update0", !.ts[curWatch(run).id] = nowMs]
    ELSE [run EXCEPT !.pc = "lookup", !.found = rows]

\* const { data: projects, error: pErr } = await q; ... up to the next await.
afterQuery(run, pErr, rows, nowMs) ==
    IF pErr
    THEN skipWatch(pushDebug(run, TRUE, run.since[curWatch(run).id], -1,
                             "Projects query error"), "qerr", nowMs)
    ELSE IF run.debug
    THEN nextWatch(pushDebug(run, TRUE, run.since[curWatch(run).id],
                             Len(rows), ""), "debug", nowMs)
    ELSE IF rows = <<>>
    THEN [run EXCEPT !.pc = "update0", !.ts[curWatch(run).id] = nowMs]
    ELSE [run EXCEPT !.pc = "lookup", !.found = rows]

\* if (upErr) console.error(...); continue;
afterUpdateZero(run, upErr, nowMs) == nextWatch(run, "zero", nowMs)

\* A failed lookup that goes on to the send.
afterLookupNoContinue(run, res, nowMs) == [run EXCEPT !.pc = "send"]

\* if (uErr || !userData?.user?.email) { console.error(...); continue; }
afterLookup(run, res, nowMs) ==
    IF res \in {"err", "noemail"}
    THEN skipWatch(run, "nouser", nowMs)
    ELSE [run EXCEPT !.pc = "send"]

\* The digest with every match listed.
composeEmailNoLimit(run) ==
    [to |-> curWatch(run).user_id,
     total |-> Len(run.found),
     listed |-> run.found,
     truncated |-> Len(run.found) > ListLimit]

\* The digest the handler composes: recipient, the count of the subject and
\* the bodies (projects.length), the projects listed (slice(0, 30)) and whether
\* the HTML body carries the note "Näytetään 30 / n".
composeEmail(run) ==
    [to |-> curWatch(run).user_id,
     total |-> Len(run.found),
     listed |-> SubSeq(run.found, 1,
                       IF Len(run.found) > ListLimit THEN ListLimit ELSE Len(run.found)),
     truncated |-> Len(run.found) > ListLimit]

\* if (sendRes?.error) { console.error(...); continue; }  then the update
\* with last_sent_at: new Date().toISOString().
afterSend(run, res, nowMs) ==
    IF res = "err"
    THEN skipWatch(run, "senderr", nowMs)
    ELSE [run EXCEPT !.pc = "update1", !.ts[curWatch(run).id] = nowMs]

\* if (upErr2) console.error(...); sent++;
afterUpdateSent(run, upErr2, nowMs) ==
    nextWatch([run EXCEPT !.sent = @ + 1], "sent", nowMs)

\* The run with the answer the environment gave for the current watch.
answered(run, field, val) ==
    [run EXCEPT !.ans[curWatch(run).id][field] = val]

\* The request arrives: the secret check and the configuration checks, up to
\* the await of the watch fetch.
Request(r) ==
    /\ runs[r].pc \in {"idle", "done"}
    /\ runs[r].inv < MaxInvocations
    /\ \E secret \in Secrets, debug \in BOOLEAN :
         LET fresh == [IdleRun EXCEPT !.inv = runs[r].inv + 1,
                                      !.secret = secret, !.debug = debug]
         IN  runs' = [runs EXCEPT ![r] =
                 IF ~authorized(secret) THEN respond(fresh, 401)
                 ELSE IF missingConfig THEN respond(fresh, 500)
                 ELSE [fresh EXCEPT !.pc = "fetch"]]
    /\ UNCHANGED <<watchlist, mw, catalog, now, env, saved_searches, projects, outbox, edits>>

\* The watch fetch returns; the loop runs to its first await.
FetchWatches(r) ==
    /\ runs[r].pc = "fetch"
    /\ \E wErr \in BOOLEAN :
         runs' = [runs EXCEPT ![r] =
             afterFetch([@ EXCEPT !.fatal = IF wErr THEN "werr" ELSE "none"],
                        wErr, enabledFrom(WatchOrder), now)]
    /\ UNCHANGED <<watchlist, mw, catalog, now, env, saved_searches, projects, outbox, edits>>

\* The project query returns.
QueryProjects(r) ==
    /\ runs[r].pc = "query"
    /\ LET run == runs[r]
           w == curWatch(run)
           rows == projectsQuery(run.since[w.id], w.filters)
       IN  \E pErr \in BOOLEAN :
             runs' = [runs EXCEPT ![r] =
                 afterQuery(answered(run, "q",
                                     IF pErr THEN "err"
                                     ELSE IF rows = <<>> THEN "zero" ELSE "some"),
                            pErr, IF pErr THEN <<>> ELSE rows, now)]
    /\ UNCHANGED <<watchlist, mw, catalog, now, env, saved_searches, projects, outbox, edits>>

\* The zero-result update of last_sent_at returns.
UpdateZero(r) ==
    /\ runs[r].pc = "update0"
    /\ LET run == runs[r]
           w == curWatch(run)
       IN  \E upErr \in BOOLEAN :
             /\ saved_searches' = IF upErr THEN saved_searches
                                  ELSE writeLastSent(w.id, run.ts[w.id])
             /\ runs' = [runs EXCEPT ![r] =
                    afterUpdateZero(answered(run, "up", IF upErr THEN "err" ELSE "ok"),
                                    upErr, now)]
    /\ UNCHANGED <<watchlist, mw, catalog, now, env, projects, outbox, edits>>

\* auth.admin.getUserById returns.
LookupUser(r) ==
    /\ runs[r].pc = "lookup"
    /\ \E res \in {"err", "noemail", "ok"} :
         runs' = [runs EXCEPT ![r] = afterLookup(answered(@, "user", res), res, now)]
    /\ UNCHANGED <<watchlist, mw, catalog, now, env, saved_searches, projects, outbox, edits>>

\* resend.emails.send returns: the provider delivered the digest or reports
\* an error.
SendEmail(r) ==
    /\ runs[r].pc = "send"
    /\ LET run == runs[r]
           w == curWatch(run)
       IN  \E res \in {"err", "ok"} :
             /\ runs' = [runs EXCEPT ![r] = afterSend(answered(run, "send", res), res, now)]
             /\ outbox' = IF res = "err" THEN outbox
                          ELSE outbox \cup
                               {[run |-> r, inv |-> run.inv, watch |-> w.id,
                                 mail |-> composeEmail(run)]}
    /\ UNCHANGED <<watchlist, mw, catalog, now, env, saved_searches, projects, edits>>

\* The update of last_sent_at after a send returns; sent++.
UpdateSent(r) ==
    /\ runs[r].pc = "update1"
    /\ LET run == runs[r]
           w == curWatch(run)
       IN  \E upErr2 \in BOOLEAN :
             /\ saved_searches' = IF upErr2 THEN saved_searches
                                  ELSE writeLastSent(w.id, run.ts[w.id])
             /\ runs' = [runs EXCEPT ![r] =
                    afterUpdateSent(answered(run, "up", IF upErr2 THEN "err" ELSE "ok"),
                                    upErr2, now)]
    /\ UNCHANGED <<watchlist, mw, catalog, now, env, projects, outbox, edits>>

\* An awaited call throws: catch (err) -> 500.
Throw(r) ==
    /\ runs[r].pc \in AwaitPcs
    /\ runs' = [runs EXCEPT ![r] = respond([@ EXCEPT !.fatal = "throw"], 500)]
    /\ UNCHANGED <<watchlist, mw, catalog, now, env, saved_searches, projects, outbox, edits>>

-----------------------------------------------------------------------------
(* The environment: the clock, the watchlist page, the catalog's saveWatch *)
(* and the dashboard's project insert.                                     *)

Tick ==
    /\ now < StartNow + MaxTicks * TickMs
    /\ now' = now + TickMs
    /\ UNCHANGED <<watchlist, mw, catalog, env, saved_searches, projects, runs, outbox, edits>>

\* update({ is_enabled: next }).eq('id', id)
toggleEnabled(id) ==
    /\ edits < MaxEdits
    /\ saved_searches[id] # NoRow
    /\ saved_searches' = [saved_searches EXCEPT ![id].is_enabled = ~@]
    /\ edits' = edits + 1
    /\ UNCHANGED <<watchlist, mw, catalog, now, env, projects, runs, outbox>>

\* update({ frequency: freq }).eq('id', id)
changeFrequency(id) ==
    /\ edits < MaxEdits
    /\ saved_searches[id] # NoRow
    /\ \E freq \in Frequencies \ {saved_searches[id].frequency} :
         saved_searches' = [saved_searches EXCEPT ![id].frequency = freq]
    /\ edits' = edits + 1
    /\ UNCHANGED <<watchlist, mw, catalog, now, env, projects, runs, outbox>>

\* delete().eq('id', id)
remove(id) ==
    /\ edits < MaxEdits
    /\ saved_searches[id] # NoRow
    /\ saved_searches' = [saved_searches EXCEPT ![id] = NoRow]
    /\ edits' = edits + 1
    /\ UNCHANGED <<watchlist, mw, catalog, now, env, projects, runs, outbox>>

\* insert({ user_id, name, filters, frequency, is_enabled: true, last_sent_at: null })
saveWatch(id) ==
    /\ edits < MaxEdits
    /\ saved_searches[id] = NoRow
    /\ \E freq \in Frequencies, filters \in FilterChoices :
         saved_searches' = [saved_searches EXCEPT ![id] =
             [user_id |-> "u1", name |-> WatchName, filters |-> filters,
              frequency |-> freq, is_enabled |-> TRUE, last_sent_at |-> NullTime]]
    /\ edits' = edits + 1
    /\ UNCHANGED <<watchlist, mw, catalog, now, env, projects, runs, outbox>>

ProjectRow(created, region, public) ==
    [name |-> <<"A", "s", " ", "O", "y">>, region |-> region, city |-> "Espoo",
     phase |-> "Suunnitteilla", property_type |-> Null,
     developer |-> NullText, builder |-> NullText,
     is_public |-> public, created_at |-> created]

\* The dashboard's insert([payload]); created_at is the store's clock.
insertProject(p) ==
    /\ edits < MaxEdits
    /\ projects[p] = NoRow
    /\ \E region \in {"Uusimaa", "Pirkanmaa"}, public \in BOOLEAN :
         projects' = [projects EXCEPT ![p] = ProjectRow(now, region, public)]
    /\ edits' = edits + 1
    /\ UNCHANGED <<watchlist, mw, catalog, now, env, saved_searches, runs, outbox>>

-----------------------------------------------------------------------------
(* The access-gate middleware: one request at a time, suspended once, in   *)
(* the await of the auth lookup.                                           *)

DashboardPath == <<"/", "d", "a", "s", "h", "b", "o", "a", "r", "d">>
ProjectsPath == <<"/", "p", "r", "o", "j", "e", "c", "t", "s">>
LoginPath == <<"/", "l", "o", "g", "i", "n">>

\* The request paths of the model.
Paths ==
    {DashboardPath, DashboardPath \o <<"/", "x">>,
     ProjectsPath, ProjectsPath \o <<"/", "7">>, ProjectsPath \o <<"x">>,
     LoginPath}

\* The query strings of the model, as sets of <<name, value>>.
Searches == {{}, {<<"next", <<"/", "e">>>>}}

\* pathname.startsWith(prefix)
StartsWith(t, prefix) ==
    Len(prefix) <= Len(t) /\ SubSeq(t, 1, Len(prefix)) = prefix

\* config.matcher: '/dashboard', '/dashboard/:path*', '/projects', '/projects/:path*'
matcher(pathname) ==
    \E prefix \in {DashboardPath, ProjectsPath} :
        pathname = prefix \/ StartsWith(pathname, prefix \o <<"/">>)

\* value.split(',')
RECURSIVE Split(_)
Split(t) ==
    IF \A k \in 1..Len(t) : t[k] # ","
    THEN <<t>>
    ELSE LET k == CHOOSE j \in 1..Len(t) :
                     t[j] = "," /\ \A h \in 1..(j - 1) : t[h] # ","
         IN  <<SubSeq(t, 1, k - 1)>> \o Split(SubSeq(t, k + 1, Len(t)))

\* The allow-list with its empty entries kept.
parseAdminEmailsKeepEmpty(value) ==
    LET parts == Split(IF value = UndefinedText THEN <<>> ELSE value)
    IN  {LowerText(Trim(parts[k])) : k \in 1..Len(parts)}

\* (value || '').split(',').map((s) => s.trim().toLowerCase()).filter(Boolean)
parseAdminEmails(value) ==
    LET parts == Split(IF value = UndefinedText THEN <<>> ELSE value)
    IN  {LowerText(Trim(parts[k])) : k \in 1..Len(parts)} \ {<<>>}

\* url.searchParams.set(name, value)
searchSet(search, name, value) ==
    {kv \in search : kv[1] # name} \cup {<<name, value>>}

\* NextResponse.next(): the request goes on to the page.
NextResponse == [kind |-> "next", pathname |-> <<>>, search |-> {}, cookies |-> {}]

\* NextResponse.redirect(url): a response of its own.
Redirect(pathname, search) ==
    [kind |-> "redirect", pathname |-> pathname, search |-> search, cookies |-> {}]

IdleMw ==
    [pc |-> "idle", pathname |-> <<>>, search |-> {}, response |-> NextResponse,
     auth |-> "none", email |-> NullText, refreshed |-> {}, returned |-> NextResponse,
     hops |-> 0]

\* The users the auth service knows, by email; a user may have none.
UserEmails ==
    {<<"a", "d", "@", "x">>, <<"A", "d", "@", "x">>, <<"c", "@", "x">>, <<>>, NullText}

\* A login check that ignores a failed lookup's error.
loginRequiredIgnoringError(auth) == auth = "nouser"

\* const user = error ? null : data.user;  ... && !user
loginRequired(auth) == auth \in {"error", "nouser"}

\* An admin check that restricts nothing while no admin is configured.
adminDeniedOpenWhenUnset(email) ==
    /\ parseAdminEmails(env.ADMIN_EMAILS) # {}
    /\ LowerText(IF email = NullText THEN <<>> ELSE email)
           \notin parseAdminEmails(env.ADMIN_EMAILS)

\* !admins.includes((user?.email || '').toLowerCase())
adminDenied(email) ==
    LowerText(IF email = NullText THEN <<>> ELSE email)
        \notin parseAdminEmails(env.ADMIN_EMAILS)

\* The decision with a denied user sent back to the admin area's root.
decideBackToDashboard(pathname, search, auth, email) ==
    LET isDashboard == StartsWith(pathname, DashboardPath)
        isProjects == StartsWith(pathname, ProjectsPath)
        isProtected == isDashboard \/ isProjects
    IN  IF isProtected /\ loginRequired(auth)
        THEN Redirect(LoginPath, searchSet(search, "next", pathname))
        ELSE IF isDashboard /\ adminDenied(email)
        THEN Redirect(DashboardPath, search)
        ELSE mw.response

\* The response after the auth lookup returned.
decide(pathname, search, auth, email) ==
    LET isDashboard == StartsWith(pathname, DashboardPath)
        isProjects == StartsWith(pathname, ProjectsPath)
        isProtected == isDashboard \/ isProjects
    IN  IF isProtected /\ loginRequired(auth)
        THEN Redirect(LoginPath, searchSet(search, "next", pathname))
        ELSE IF isDashboard /\ adminDenied(email)
        THEN Redirect(ProjectsPath, search)
        ELSE mw.response

\* A request the matcher selects arrives: let response = NextResponse.next(),
\* the client is created and getUser() is awaited.
MwRequest ==
    /\ mw.pc \in {"idle", "done", "page"}
    /\ \E pathname \in Paths, search \in Searches :
         /\ matcher(pathname)
         /\ mw' = [IdleMw EXCEPT !.pc = "await", !.pathname = pathname,
                                 !.search = search]
    /\ UNCHANGED <<watchlist, now, env, saved_searches, projects, runs, outbox, edits, catalog>>

\* The session check refreshes the auth cookies: setAll(cookiesToSet).
MwSetAll ==
    /\ mw.pc = "await"
    /\ mw.refreshed = {}
    /\ \E cookiesToSet \in {{"sb-access"}, {"sb-access", "sb-refresh"}} :
         mw' = [mw EXCEPT !.refreshed = cookiesToSet,
                          !.response.cookies = @ \cup cookiesToSet]
    /\ UNCHANGED <<watchlist, now, env, saved_searches, projects, runs, outbox, edits, catalog>>

\* getUser() returns: an error, no user, or a user.
MwGetUser ==
    /\ mw.pc = "await"
    /\ \E auth \in {"error", "nouser", "user"} :
       \E email \in IF auth = "user" THEN UserEmails ELSE {NullText} :
         mw' = [mw EXCEPT !.pc = "done", !.auth = auth, !.email = email,
                          !.returned = decide(mw.pathname, mw.search, auth, email)]
    /\ UNCHANGED <<watchlist, now, env, saved_searches, projects, runs, outbox, edits, catalog>>

\* The redirects one navigation may follow in the model.
MaxHops == 2

\* The browser follows a redirect: it requests the Location. A path the
\* matcher selects goes through the middleware again, any other path (such
\* as /login, whose page redirects nowhere until its form is submitted) is
\* served as it is.
MwFollow ==
    /\ mw.pc = "done"
    /\ mw.returned.kind = "redirect"
    /\ mw.hops < MaxHops
    /\ mw' = [IdleMw EXCEPT !.pc = IF matcher(mw.returned.pathname)
                                   THEN "await" ELSE "page",
                            !.pathname = mw.returned.pathname,
                            !.search = mw.returned.search,
                            !.auth = mw.auth, !.email = mw.email,
                            !.hops = mw.hops + 1]
    /\ UNCHANGED <<watchlist, now, env, saved_searches, projects, runs, outbox, edits, catalog>>

\* getUser() on a followed request, the session being what it was on the
\* request before: the same answer.
MwGetUserAgain ==
    /\ mw.pc = "await"
    /\ mw.hops > 0
    /\ mw' = [mw EXCEPT !.pc = "done",
                        !.returned = decide(mw.pathname, mw.search, mw.auth, mw.email)]
    /\ UNCHANGED <<watchlist, now, env, saved_searches, projects, runs, outbox, edits, catalog>>

-----------------------------------------------------------------------------
(* The catalog page (/projects): its React state; what it shows is        *)
(* computed from the state on every render.                               *)

\* const pageSize = isMobile ? 15 : 30
MobilePageSize == 15
DesktopPageSize == 30

\* useState<MapBounds | null>(null)
NullBounds == [isNull |-> TRUE, south |-> 0, west |-> 0, north |-> 0, east |-> 0]

\* The useState initial values of Projects().
InitialCatalog ==
    [loading |-> TRUE, projects |-> <<>>, q |-> <<>>, region |-> <<>>,
     city |-> <<>>, phase |-> <<>>, propertyType |-> <<>>,
     mapBounds |-> NullBounds, limitToMapView |-> TRUE,
     isMobile |-> FALSE, visibleCount |-> DesktopPageSize]

\* A latitude or longitude as the store returns it: null, a number or a
\* string.
NullCoord == [t |-> "null", n |-> 0, s |-> <<>>]
NumberCoord(n) == [t |-> "number", n |-> n, s |-> <<>>]
StringCoord(s) == [t |-> "string", n |-> 0, s |-> s]

Digits == <<"0", "1", "2", "3", "4", "5", "6", "7", "8", "9">>
IsDigit(c) == \E d \in 1..10 : Digits[d] = c
DigitValue(c) == (CHOOSE d \in 1..10 : Digits[d] = c) - 1

RECURSIVE DigitsValue(_)
DigitsValue(t) ==
    IF t = <<>> THEN 0
    ELSE 10 * DigitsValue(SubSeq(t, 1, Len(t) - 1)) + DigitValue(t[Len(t)])

\* parseFloat(v) on the strings of the model (whole numbers): leading
\* blanks skipped, then the longest run of digits; the empty set is NaN.
parseFloat(s) ==
    LET t == TrimLeft(s)
        n == CHOOSE k \in 0..Len(t) :
                 /\ \A j \in 1..k : IsDigit(t[j])
                 /\ k < Len(t) => ~IsDigit(t[k + 1])
    IN  IF n = 0 THEN {} ELSE {DigitsValue(SubSeq(t, 1, n))}

\* toNumberOrNull(v): the empty set is null, {n} the number n.
toNumberOrNull(v) ==
    CASE v.t = "null" -> {}
      [] v.t = "number" -> {v.n}
      [] v.t = "string" -> parseFloat(v.s)

\* getCoords(p): p.latitude ?? p.lat, where lat and lng are not columns
\* the page selects.
getCoords(p) ==
    [lat |-> toNumberOrNull(p.latitude), lng |-> toNumberOrNull(p.longitude)]

hasCoords(p) == getCoords(p).lat # {} /\ getCoords(p).lng # {}

\* v ?? '' and v || '' on a text column
orEmpty(t) == IF t = NullText THEN <<>> ELSE t

\* [a, b, ...].join(' ')
RECURSIVE join(_)
join(parts) ==
    IF Len(parts) = 0 THEN <<>>
    ELSE IF Len(parts) = 1 THEN parts[1]
    ELSE parts[1] \o <<" ">> \o join(Tail(parts))

\* The filter callback searching with the term as typed.
matchesFiltersAsTyped(p) ==
    LET needle == Trim(catalog.q)
    IN  IF catalog.region # <<>> /\ orEmpty(p.region) # catalog.region THEN FALSE
        ELSE IF catalog.city # <<>> /\ p.city # catalog.city THEN FALSE
        ELSE IF catalog.phase # <<>> /\ p.phase # catalog.phase THEN FALSE
        ELSE IF catalog.propertyType # <<>>
                /\ orEmpty(p.property_type) # catalog.propertyType THEN FALSE
        ELSE IF needle = <<>> THEN TRUE
        ELSE LET haystack ==
                     LowerText(join(<<p.name, orEmpty(p.region), p.city, p.phase,
                                      orEmpty(p.location), orEmpty(p.developer),
                                      orEmpty(p.builder), orEmpty(p.property_type),
                                      orEmpty(p.additional_info)>>))
             IN  Contains(haystack, needle)

\* The callback of projects.filter in filteredProjects.
matchesFilters(p) ==
    LET needle == LowerText(Trim(catalog.q))
    IN  IF catalog.region # <<>> /\ orEmpty(p.region) # catalog.region THEN FALSE
        ELSE IF catalog.city # <<>> /\ p.city # catalog.city THEN FALSE
        ELSE IF catalog.phase # <<>> /\ p.phase # catalog.phase THEN FALSE
        ELSE IF catalog.propertyType # <<>>
                /\ orEmpty(p.property_type) # catalog.propertyType THEN FALSE
        ELSE IF needle = <<>> THEN TRUE
        ELSE LET haystack ==
                     LowerText(join(<<p.name, orEmpty(p.region), p.city, p.phase,
                                      orEmpty(p.location), orEmpty(p.developer),
                                      orEmpty(p.builder), orEmpty(p.property_type),
                                      orEmpty(p.additional_info)>>))
             IN  Contains(haystack, needle)

filteredProjects == SelectSeq(catalog.projects, matchesFilters)

filteredWithCoords == SelectSeq(filteredProjects, hasCoords)

filteredNoCoords ==
    LET noCoords(p) == ~hasCoords(p) IN SelectSeq(filteredProjects, noCoords)

inBoundsWithCoords ==
    IF ~catalog.limitToMapView \/ catalog.mapBounds.isNull THEN filteredWithCoords
    ELSE LET b == catalog.mapBounds
             inBounds(p) ==
                 /\ hasCoords(p)
                 /\ \E lat \in getCoords(p).lat, lng \in getCoords(p).lng :
                       /\ lat >= b.south /\ lat <= b.north
                       /\ lng >= b.west /\ lng <= b.east
         IN  SelectSeq(filteredWithCoords, inBounds)

\* The list restricted to the map view, projects without coordinates
\* left out.
listProjectsInViewOnly ==
    IF ~catalog.limitToMapView THEN filteredProjects
    ELSE inBoundsWithCoords

listProjects ==
    IF ~catalog.limitToMapView THEN filteredProjects
    ELSE inBoundsWithCoords \o filteredNoCoords

\* uniqSorted(values), as the set of its entries.
uniqSorted(values) ==
    {Trim(orEmpty(values[k])) : k \in 1..Len(values)} \ {<<>>}

regions == uniqSorted([k \in 1..Len(catalog.projects) |-> catalog.projects[k].region])

citiesOf(c) ==
    LET inRegion(p) == orEmpty(p.region) = c.region
        base == IF c.region # <<>> THEN SelectSeq(c.projects, inRegion) ELSE c.projects
    IN  uniqSorted([k \in 1..Len(base) |-> base[k].city])

cities == citiesOf(catalog)

phases == uniqSorted([k \in 1..Len(catalog.projects) |-> catalog.projects[k].phase])

propertyTypes ==
    uniqSorted([k \in 1..Len(catalog.projects) |-> catalog.projects[k].property_type])

\* The effect that clears a city the region's options no longer offer.
clearStaleCity(c) ==
    IF c.city # <<>> /\ c.city \notin citiesOf(c) THEN [c EXCEPT !.city = <<>>] ELSE c

Uusimaa == <<"U", "u", "s", "i", "m", "a", "a">>
Lappi == <<"L", "a", "p", "p", "i">>
Espoo == <<"E", "s", "p", "o", "o">>
Vantaa == <<"V", "a", "n", "t", "a", "a">>
Inari == <<"I", "n", "a", "r", "i">>
Suunnitteilla == <<"S", "u", "u", "n", "n", "i", "t", "t", "e", "i", "l", "l", "a">>
Rakenteilla == <<"R", "a", "k", "e", "n", "t", "e", "i", "l", "l", "a">>
Koulu == <<"K", "o", "u", "l", "u">>

\* The rows of the model, newest first.
CatalogRows ==
    <<[id |-> 1, name |-> <<"A", "s", " ", "O", "y">>, region |-> Uusimaa, city |-> Espoo,
       phase |-> Suunnitteilla, location |-> NullText, developer |-> NullText,
       builder |-> <<"Y", "I", "T">>, property_type |-> NullText,
       additional_info |-> NullText,
       latitude |-> NumberCoord(60), longitude |-> NumberCoord(24)],
      [id |-> 2, name |-> Koulu, region |-> NullText, city |-> Espoo,
       phase |-> Rakenteilla, location |-> NullText, developer |-> <<"O", "y", " ", "X">>,
       builder |-> NullText, property_type |-> Koulu,
       additional_info |-> NullText,
       latitude |-> NullCoord, longitude |-> NullCoord],
      [id |-> 3, name |-> <<"H", "a", "l", "l", "i">>, region |-> Lappi, city |-> Inari,
       phase |-> Suunnitteilla, location |-> NullText, developer |-> NullText,
       builder |-> NullText, property_type |-> NullText,
       additional_info |-> <<"T", "o", "y">>,
       latitude |-> StringCoord(<<"6", "8">>), longitude |-> StringCoord(<<"x">>)],
      [id |-> 4, name |-> <<"O", "y">>, region |-> Uusimaa, city |-> Vantaa,
       phase |-> Rakenteilla, location |-> NullText, developer |-> NullText,
       builder |-> NullText, property_type |-> Koulu,
       additional_info |-> NullText,
       latitude |-> StringCoord(<<"6", "5">>), longitude |-> NumberCoord(25)],
      [id |-> 5, name |-> <<"T", "a", "l", "o">>, region |-> Uusimaa, city |-> Espoo,
       phase |-> Rakenteilla, location |-> NullText, developer |-> NullText,
       builder |-> NullText, property_type |-> NullText,
       additional_info |-> NullText,
       latitude |-> NumberCoord(60), longitude |-> NullCoord]>>

\* The rows followed by older ones, MaxRows in all.
ManyRows ==
    CatalogRows \o
    [k \in 1..(MaxRows - Len(CatalogRows)) |->
        [CatalogRows[5] EXCEPT !.id = k + Len(CatalogRows),
                               !.longitude = NumberCoord(24)]]

\* What the page's query can answer: no rows, the two newest, the rows of
\* the model, and a long list.
CatalogData == {<<>>, SubSeq(CatalogRows, 1, 2), CatalogRows, ManyRows}

\* The terms typed into the search box.
CatalogTerms == {<<>>, <<" ">>, <<"O", "y">>, <<" ", "o", "y", " ">>, <<"y", " ", "u">>, <<"z">>}

\* The viewports the map reports.
Viewports ==
    {[isNull |-> FALSE, south |-> 59, west |-> 23, north |-> 61, east |-> 25],
     [isNull |-> FALSE, south |-> 60, west |-> 24, north |-> 60, east |-> 24],
     [isNull |-> FALSE, south |-> 0, west |-> 0, north |-> 1, east |-> 1]}

\* const pageSize = isMobile ? 15 : 30
pageSize(c) == IF c.isMobile THEN MobilePageSize ELSE DesktopPageSize

\* The effect's dependencies q, region, city, phase, propertyType,
\* limitToMapView and pageSize, mapBounds apart.
listDeps(c) ==
    <<c.q, c.region, c.city, c.phase, c.propertyType, c.limitToMapView, pageSize(c)>>

\* An effect that starts the list over only when a filter or the batch
\* size changes.
resetVisibleCountOnFilters(old, new, boundsReported) ==
    IF listDeps(new) # listDeps(old)
    THEN [new EXCEPT !.visibleCount = pageSize(new)]
    ELSE new

\* useEffect(() => setVisibleCount(pageSize), [q, ..., mapBounds, pageSize]):
\* every report of the map is a new mapBounds object.
resetVisibleCount(old, new, boundsReported) ==
    IF listDeps(new) # listDeps(old) \/ boundsReported
    THEN [new EXCEPT !.visibleCount = pageSize(new)]
    ELSE new

\* The state once the effects of a handler's update have run.
rendered(new, boundsReported) ==
    resetVisibleCount(catalog, clearStaleCity(new), boundsReported)

\* fetchProjects(): the rows of the query, or none when it failed.
fetchProjects ==
    /\ catalog.loading
    /\ \E error \in BOOLEAN, data \in CatalogData :
         catalog' = rendered([catalog EXCEPT !.projects = IF error THEN <<>> ELSE data,
                             !.loading = FALSE], FALSE)
    /\ UNCHANGED <<watchlist, now, env, saved_searches, projects, runs, outbox, edits, mw>>

\* useIsMobile: the media query answers.
setIsMobile ==
    /\ \E matches \in BOOLEAN :
         catalog' = rendered([catalog EXCEPT !.isMobile = matches], FALSE)
    /\ UNCHANGED <<watchlist, now, env, saved_searches, projects, runs, outbox, edits, mw>>

setQ ==
    /\ \E v \in CatalogTerms :
         catalog' = rendered([catalog EXCEPT !.q = v], FALSE)
    /\ UNCHANGED <<watchlist, now, env, saved_searches, projects, runs, outbox, edits, mw>>

setRegion ==
    /\ \E v \in regions \cup {<<>>} :
         catalog' = rendered([catalog EXCEPT !.region = v], FALSE)
    /\ UNCHANGED <<watchlist, now, env, saved_searches, projects, runs, outbox, edits, mw>>

setCity ==
    /\ \E v \in cities \cup {<<>>} :
         catalog' = rendered([catalog EXCEPT !.city = v], FALSE)
    /\ UNCHANGED <<watchlist, now, env, saved_searches, projects, runs, outbox, edits, mw>>

setPhase ==
    /\ \E v \in phases \cup {<<>>} :
         catalog' = rendered([catalog EXCEPT !.phase = v], FALSE)
    /\ UNCHANGED <<watchlist, now, env, saved_searches, projects, runs, outbox, edits, mw>>

setPropertyType ==
    /\ \E v \in propertyTypes \cup {<<>>} :
         catalog' = rendered([catalog EXCEPT !.propertyType = v], FALSE)
    /\ UNCHANGED <<watchlist, now, env, saved_searches, projects, runs, outbox, edits, mw>>

clearFilters ==
    /\ catalog' = rendered([catalog EXCEPT !.q = <<>>, !.region = <<>>, !.city = <<>>,
                           !.phase = <<>>, !.propertyType = <<>>], FALSE)
    /\ UNCHANGED <<watchlist, now, env, saved_searches, projects, runs, outbox, edits, mw>>

\* onBoundsChange: the map reports its viewport.
setMapBounds ==
    /\ \E b \in Viewports :
         catalog' = rendered([catalog EXCEPT !.mapBounds = b], TRUE)
    /\ UNCHANGED <<watchlist, now, env, saved_searches, projects, runs, outbox, edits, mw>>

setLimitToMapView ==
    /\ \E checked \in BOOLEAN :
         catalog' = rendered([catalog EXCEPT !.limitToMapView = checked], FALSE)
    /\ UNCHANGED <<watchlist, now, env, saved_searches, projects, runs, outbox, edits, mw>>

\* listProjects.slice(0, visibleCount)
visibleProjects ==
    SubSeq(listProjects, 1,
           IF catalog.visibleCount < Len(listProjects)
           THEN catalog.visibleCount ELSE Len(listProjects))

\* The "Lataa lisaa" button, shown while the list is longer than its
\* visible part: setVisibleCount((c) => c + pageSize).
loadMore ==
    /\ Len(listProjects) > catalog.visibleCount
    /\ catalog' = rendered([catalog EXCEPT !.visibleCount = @ + pageSize(catalog)], FALSE)
    /\ UNCHANGED <<watchlist, now, env, saved_searches, projects, runs, outbox, edits, mw>>

-----------------------------------------------------------------------------
(* The watchlist page: its React state and the requests it has in flight. *)
(* A request is sent by a handler, answered by the store, and its answer  *)
(* is handled by the rest of the handler.                                 *)

\* The requests the user's clicks send while the page is open.
MaxRequests == 2

\* The names typed into the inline editor.
DraftNames == {<<" ">>, <<" ", "K", "o", "t", "i", " ">>}

Call(op, id, arg, before) ==
    [op |-> op, id |-> id, arg |-> arg, before |-> before, stage |-> "sent",
     data |-> <<>>]

\* The useState initial values of WatchlistsPage(), the load() of the mount
\* effect started.
InitialWatchlist ==
    [loading |-> TRUE, items |-> <<>>, error |-> Null, editingId |-> Null,
     draftName |-> <<>>, calls |-> <<Call("load", Null, Null, <<>>)>>, loaded |-> FALSE, requests |-> 0]

\* A row as the page selects it.
Item(id) ==
    [id |-> id, user_id |-> saved_searches[id].user_id,
     name |-> saved_searches[id].name, filters |-> saved_searches[id].filters,
     frequency |-> saved_searches[id].frequency,
     is_enabled |-> saved_searches[id].is_enabled,
     last_sent_at |-> saved_searches[id].last_sent_at]

\* select(...).order('created_at', { ascending: false })
StoredItems ==
    LET present(id) == saved_searches[id] # NoRow
        ids == SelectSeq(WatchOrder, present)
    IN  [k \in 1..Len(ids) |-> Item(ids[k])]

ItemIds(items) == {items[k].id : k \in 1..Len(items)}

ItemOf(items, id) == items[CHOOSE k \in 1..Len(items) : items[k].id = id]

\* calls without the k-th
Without(calls, k) ==
    SubSeq(calls, 1, k - 1) \o SubSeq(calls, k + 1, Len(calls))

\* load(): setError(null), setLoading(true) and the query sent.
load(w) ==
    [w EXCEPT !.error = Null, !.loading = TRUE, !.calls = Append(@, Call("load", Null, Null, <<>>))]

\* The "Paivita" button: onClick={load}
refresh ==
    /\ ~watchlist.loading
    /\ watchlist.requests < MaxRequests
    /\ watchlist' = load([watchlist EXCEPT !.requests = @ + 1])
    /\ UNCHANGED <<now, env, saved_searches, projects, runs, outbox, edits, mw, catalog>>

\* The store answers a request of the page: an update or a delete takes
\* effect on the row with that id, if there is one, or fails; the query
\* returns the rows.
storeAnswers(k) ==
    /\ k \in 1..Len(watchlist.calls)
    /\ watchlist.calls[k].stage = "sent"
    /\ LET c == watchlist.calls[k]
           there == saved_searches[c.id] # NoRow
       IN  \E failed \in BOOLEAN :
             /\ watchlist' =
                  [watchlist EXCEPT
                     !.calls[k].stage = IF failed THEN "err" ELSE "ok",
                     !.calls[k].data = IF c.op = "load" /\ ~failed
                                       THEN StoredItems ELSE <<>>]
             /\ saved_searches' =
                  IF failed \/ c.op = "load" \/ ~there THEN saved_searches
                  ELSE CASE c.op = "toggleEnabled" ->
                              [saved_searches EXCEPT ![c.id].is_enabled = c.arg]
                         [] c.op = "changeFrequency" ->
                              [saved_searches EXCEPT ![c.id].frequency = c.arg]
                         [] c.op = "saveName" ->
                              [saved_searches EXCEPT ![c.id].name = c.arg]
                         [] c.op = "remove" ->
                              [saved_searches EXCEPT ![c.id] = NoRow]
    /\ UNCHANGED <<now, env, projects, runs, outbox, edits, mw, catalog>>

\* The rest of load(): setItems(data || []) or setItems([]) and setError.
loadDone(k) ==
    /\ k \in 1..Len(watchlist.calls)
    /\ watchlist.calls[k].op = "load"
    /\ watchlist.calls[k].stage \in {"ok", "err"}
    /\ LET c == watchlist.calls[k]
       IN  watchlist' =
             [watchlist EXCEPT
                !.items = IF c.stage = "ok" THEN c.data ELSE <<>>,
                !.error = IF c.stage = "ok" THEN @ ELSE "load",
                !.loading = FALSE,
                !.loaded = (c.stage = "ok"),
                !.calls = Without(@, k)]
    /\ UNCHANGED <<now, env, saved_searches, projects, runs, outbox, edits, mw, catalog>>

\* prev.map((x) => (x.id === id ? { ...x, ...patch } : x))
withItem(items, id, patch) ==
    [k \in 1..Len(items) |->
        IF items[k].id = id
        THEN [f \in DOMAIN items[k] |->
                 IF f \in DOMAIN patch THEN patch[f] ELSE items[k][f]]
        ELSE items[k]]

\* prev.filter((x) => x.id !== id)
withoutItem(items, id) ==
    LET other(x) == x.id # id IN SelectSeq(items, other)

\* The checkbox of a listed watch: toggleEnabled(it.id, e.target.checked),
\* up to its await.
wlToggleEnabled(id) ==
    /\ ~watchlist.loading
    /\ id \in ItemIds(watchlist.items)
    /\ watchlist.requests < MaxRequests
    /\ LET next == ~ItemOf(watchlist.items, id).is_enabled
       IN  watchlist' =
             [watchlist EXCEPT
                !.items = withItem(@, id, [is_enabled |-> next]),
                !.requests = @ + 1,
                !.calls = Append(@, Call("toggleEnabled", id, next, <<>>))]
    /\ UNCHANGED <<now, env, saved_searches, projects, runs, outbox, edits, mw, catalog>>

\* toggleEnabled after its await: if (updErr) the flag is set to !next and
\* the error shown.
toggleEnabledDone(k) ==
    /\ k \in 1..Len(watchlist.calls)
    /\ watchlist.calls[k].op = "toggleEnabled"
    /\ watchlist.calls[k].stage \in {"ok", "err"}
    /\ LET c == watchlist.calls[k]
           w == [watchlist EXCEPT !.calls = Without(@, k)]
       IN  watchlist' =
             IF c.stage = "err"
             THEN [w EXCEPT !.items = withItem(@, c.id, [is_enabled |-> ~c.arg]),
                            !.error = "update"]
             ELSE w
    /\ UNCHANGED <<now, env, saved_searches, projects, runs, outbox, edits, mw, catalog>>

\* The select of a listed watch: changeFrequency(it.id, e.target.value), up
\* to its await.
wlChangeFrequency(id) ==
    /\ ~watchlist.loading
    /\ id \in ItemIds(watchlist.items)
    /\ watchlist.requests < MaxRequests
    /\ \E freq \in Frequencies \ {ItemOf(watchlist.items, id).frequency} :
         watchlist' =
           [watchlist EXCEPT
              !.items = withItem(@, id, [frequency |-> freq]),
              !.requests = @ + 1,
              !.calls = Append(@, Call("changeFrequency", id, freq, <<>>))]
    /\ UNCHANGED <<now, env, saved_searches, projects, runs, outbox, edits, mw, catalog>>

\* changeFrequency after its await: if (updErr) { setError(...); load() }
changeFrequencyDone(k) ==
    /\ k \in 1..Len(watchlist.calls)
    /\ watchlist.calls[k].op = "changeFrequency"
    /\ watchlist.calls[k].stage \in {"ok", "err"}
    /\ LET c == watchlist.calls[k]
           w == [watchlist EXCEPT !.calls = Without(@, k)]
       IN  watchlist' = IF c.stage = "err" THEN load([w EXCEPT !.error = "update"]) ELSE w
    /\ UNCHANGED <<now, env, saved_searches, projects, runs, outbox, edits, mw, catalog>>

startEditName(id) ==
    /\ ~watchlist.loading
    /\ id \in ItemIds(watchlist.items)
    /\ watchlist' = [watchlist EXCEPT !.editingId = id,
                                      !.draftName = ItemOf(watchlist.items, id).name,
                                      !.error = Null]
    /\ UNCHANGED <<now, env, saved_searches, projects, runs, outbox, edits, mw, catalog>>

\* The editor's input: onChange={(e) => setDraftName(e.target.value)}
setDraftName ==
    /\ ~watchlist.loading
    /\ watchlist.editingId \in ItemIds(watchlist.items)
    /\ \E v \in DraftNames : watchlist' = [watchlist EXCEPT !.draftName = v]
    /\ UNCHANGED <<now, env, saved_searches, projects, runs, outbox, edits, mw, catalog>>

cancelEditName ==
    /\ ~watchlist.loading
    /\ watchlist.editingId \in ItemIds(watchlist.items)
    /\ watchlist' = [watchlist EXCEPT !.editingId = Null, !.draftName = <<>>]
    /\ UNCHANGED <<now, env, saved_searches, projects, runs, outbox, edits, mw, catalog>>

\* The editor's save button: saveName(it.id), up to its await.
saveName(id) ==
    /\ ~watchlist.loading
    /\ watchlist.editingId = id
    /\ id \in ItemIds(watchlist.items)
    /\ watchlist.requests < MaxRequests
    /\ LET name == Trim(watchlist.draftName)
       IN  watchlist' =
             IF name = <<>> THEN [watchlist EXCEPT !.error = "empty"]
             ELSE [watchlist EXCEPT
                     !.items = withItem(@, id, [name |-> name]),
                     !.editingId = Null,
                     !.requests = @ + 1,
                     !.calls = Append(@, Call("saveName", id, name, <<>>))]
    /\ UNCHANGED <<now, env, saved_searches, projects, runs, outbox, edits, mw, catalog>>

\* saveName after its await: if (updErr) { setError(...); load() }
saveNameDone(k) ==
    /\ k \in 1..Len(watchlist.calls)
    /\ watchlist.calls[k].op = "saveName"
    /\ watchlist.calls[k].stage \in {"ok", "err"}
    /\ LET c == watchlist.calls[k]
           w == [watchlist EXCEPT !.calls = Without(@, k)]
       IN  watchlist' = IF c.stage = "err" THEN load([w EXCEPT !.error = "update"]) ELSE w
    /\ UNCHANGED <<now, env, saved_searches, projects, runs, outbox, edits, mw, catalog>>

\* The delete button, confirmed: const before = items; the item leaves the
\* list and the delete is sent.
wlRemove(id) ==
    /\ ~watchlist.loading
    /\ id \in ItemIds(watchlist.items)
    /\ watchlist.requests < MaxRequests
    /\ watchlist' =
         [watchlist EXCEPT
            !.items = withoutItem(@, id),
            !.requests = @ + 1,
            !.calls = Append(@, Call("remove", id, Null, watchlist.items))]
    /\ UNCHANGED <<now, env, saved_searches, projects, runs, outbox, edits, mw, catalog>>

\* remove after its await: if (delErr) { setItems(before); setError(...) }
removeDone(k) ==
    /\ k \in 1..Len(watchlist.calls)
    /\ watchlist.calls[k].op = "remove"
    /\ watchlist.calls[k].stage \in {"ok", "err"}
    /\ LET c == watchlist.calls[k]
           w == [watchlist EXCEPT !.calls = Without(@, k)]
       IN  watchlist' = IF c.stage = "err"
                        THEN [w EXCEPT !.items = c.before, !.error = "delete"]
                        ELSE w
    /\ UNCHANGED <<now, env, saved_searches, projects, runs, outbox, edits, mw, catalog>>

-----------------------------------------------------------------------------
(* Initial states. *)

FullEnv ==
    [CRON_SECRET |-> "s3cret", NEXT_PUBLIC_SUPABASE_URL |-> "set",
     SUPABASE_SERVICE_ROLE_KEY |-> "set", RESEND_API_KEY |-> "set",
     ADMIN_EMAILS |-> UndefinedText]

BrokenEnvs ==
    {[FullEnv EXCEPT !.CRON_SECRET = Undefined],
     [FullEnv EXCEPT !.CRON_SECRET = ""],
     [FullEnv EXCEPT !.NEXT_PUBLIC_SUPABASE_URL = Undefined],
     [FullEnv EXCEPT !.SUPABASE_SERVICE_ROLE_KEY = Undefined],
     [FullEnv EXCEPT !.RESEND_API_KEY = Undefined],
     [FullEnv EXCEPT !.SUPABASE_SERVICE_ROLE_KEY = ""]}

WatchRow(user, freq, last, filters, enabled) ==
    [user_id |-> user, name |-> WatchName, filters |-> filters, frequency |-> freq,
     is_enabled |-> enabled, last_sent_at |-> last]

\* The store a deployment can hold when the model starts: watches never sent
\* or last sent six days ago, projects of the last two days or none.
InitWatches ==
    {[w \in WatchIds |-> IF w = "w1" THEN a ELSE b] :
        a \in {WatchRow("u1", f, l, NoFilters, TRUE) :
                 f \in Frequencies, l \in {NullTime, StartNow - 6 * day}},
        b \in {NoRow,
               WatchRow("u2", "daily", StartNow - 6 * day,
                        [NoFilters EXCEPT !.region = "Uusimaa"], TRUE),
               WatchRow("u2", "weekly", NullTime, NoFilters, TRUE)}}

InitProjects ==
    {[p \in ProjIds |-> NoRow],
     [p \in ProjIds |-> IF p = 1
                        THEN ProjectRow(StartNow - day, "Uusimaa", TRUE)
                        ELSE ProjectRow(StartNow - 2 * day, "Uusimaa", TRUE)],
     [p \in ProjIds |-> IF p = 1
                        THEN ProjectRow(StartNow, "Pirkanmaa", TRUE)
                        ELSE ProjectRow(StartNow - day, "Uusimaa", FALSE)]}

Init ==
    /\ now = StartNow
    /\ runs = [r \in RunIds |-> IdleRun]
    /\ outbox = {}
    /\ edits = 0
    /\ mw = IdleMw
    /\ catalog = InitialCatalog
    /\ watchlist = InitialWatchlist
    /\ \/ /\ env = FullEnv
          /\ saved_searches \in InitWatches
          /\ projects \in InitProjects
       \/ /\ env \in BrokenEnvs
          /\ saved_searches = [w \in WatchIds |->
                                 WatchRow("u1", "daily", NullTime, NoFilters, TRUE)]
          /\ projects = [p \in ProjIds |-> NoRow]

\* One deployment, for the specifications that interleave more processes.
InitSmall ==
    /\ now = StartNow
    /\ runs = [r \in RunIds |-> IdleRun]
    /\ outbox = {}
    /\ edits = 0
    /\ mw = IdleMw
    /\ catalog = InitialCatalog
    /\ watchlist = InitialWatchlist
    /\ env = FullEnv
    /\ saved_searches \in
          {[w \in WatchIds |-> IF w = "w1" THEN a
                               ELSE WatchRow("u2", "daily", StartNow - 6 * day,
                                             [NoFilters EXCEPT !.region = "Uusimaa"], TRUE)] :
             a \in {WatchRow("u1", "weekly", NullTime, NoFilters, TRUE),
                    WatchRow("u1", "daily", StartNow - 6 * day, NoFilters, TRUE)}}
    /\ projects \in {ps \in InitProjects : \A p \in ProjIds : ps[p] = NoRow \/ ps[p].is_public}

\* One deployment for the specification with the users' edits: the second
\* watch is enabled, disabled or not there yet.
InitEdits ==
    /\ now = StartNow
    /\ runs = [r \in RunIds |-> IdleRun]
    /\ outbox = {}
    /\ edits = 0
    /\ mw = IdleMw
    /\ catalog = InitialCatalog
    /\ watchlist = InitialWatchlist
    /\ env = FullEnv
    /\ saved_searches \in
          {[w \in WatchIds |-> IF w = "w1" THEN a ELSE b] :
             a \in {WatchRow("u1", "weekly", NullTime, NoFilters, TRUE),
                    WatchRow("u1", "daily", StartNow - 6 * day, NoFilters, TRUE)},
             b \in {NoRow} \cup
                   {WatchRow("u2", "daily", StartNow - 6 * day,
                             [NoFilters EXCEPT !.region = "Uusimaa"], en) :
                      en \in BOOLEAN}}
    /\ projects \in {ps \in InitProjects : \A p \in ProjIds : ps[p] = NoRow \/ ps[p].is_public}

\* The free-text terms of the saved filters: saveWatch stores q.trim() || null.
QueryTerms == {NullText, <<"o", "y">>, <<"s", "_", "O">>, <<"x">>}

\* Deployments for the project query: one daily watch never sent with the
\* filters saveWatch can store, and projects on both sides of the window start.
InitQuery ==
    /\ now = StartNow
    /\ runs = [r \in RunIds |-> IdleRun]
    /\ outbox = {}
    /\ edits = 0
    /\ mw = IdleMw
    /\ catalog = InitialCatalog
    /\ watchlist = InitialWatchlist
    /\ env = FullEnv
    /\ \E term \in QueryTerms, region \in {Null, "Uusimaa"} :
          saved_searches =
            [w \in WatchIds |->
               IF w = "w1"
               THEN WatchRow("u1", "daily", NullTime,
                             [NoFilters EXCEPT !.q = term, !.region = region], TRUE)
               ELSE NoRow]
    /\ \E a, b \in {ProjectRow(c, reg, pub) :
                       c \in {StartNow - day, StartNow - day + 1, StartNow},
                       reg \in {"Uusimaa", "Pirkanmaa"}, pub \in BOOLEAN} :
          projects = [p \in ProjIds |-> IF p = 1 THEN a ELSE b]

\* Deployments for the digest's list: one daily watch never sent, without
\* filters, and n public projects of the last day, each a second older than
\* the one before.
InitList ==
    /\ now = StartNow
    /\ runs = [r \in RunIds |-> IdleRun]
    /\ outbox = {}
    /\ edits = 0
    /\ mw = IdleMw
    /\ catalog = InitialCatalog
    /\ watchlist = InitialWatchlist
    /\ env = FullEnv
    /\ saved_searches =
          [w \in WatchIds |->
             IF w = "w1" THEN WatchRow("u1", "daily", NullTime, NoFilters, TRUE)
             ELSE NoRow]
    /\ \E n \in 0..MaxProjects :
          projects = [p \in ManyProjIds |->
                        IF p <= n THEN ProjectRow(StartNow - p * 1000, "Uusimaa", TRUE)
                        ELSE NoRow]

\* The ADMIN_EMAILS settings of the model: unset, empty, " Ad@x ,b@x" and
\* "c@x,,".
AdminEmailsSettings ==
    {UndefinedText, <<>>, <<" ", ",", " ">>,
     <<" ", "A", "d", "@", "x", " ", ",", "b", "@", "x">>,
     <<"c", "@", "x", ",", ",">>}

InitMw ==
    /\ now = StartNow
    /\ runs = [r \in RunIds |-> IdleRun]
    /\ outbox = {}
    /\ edits = 0
    /\ mw = IdleMw
    /\ catalog = InitialCatalog
    /\ watchlist = InitialWatchlist
    /\ \E v \in AdminEmailsSettings : env = [FullEnv EXCEPT !.ADMIN_EMAILS = v]
    /\ saved_searches = [w \in WatchIds |-> NoRow]
    /\ projects = [p \in ProjIds |-> NoRow]

InitCatalog ==
    /\ now = StartNow
    /\ runs = [r \in RunIds |-> IdleRun]
    /\ outbox = {}
    /\ edits = 0
    /\ mw = IdleMw
    /\ catalog = InitialCatalog
    /\ watchlist = InitialWatchlist
    /\ env = FullEnv
    /\ saved_searches = [w \in WatchIds |-> NoRow]
    /\ projects = [p \in ProjIds |-> NoRow]

\* One deployment for the specification with project inserts: a daily
\* watch last sent six days ago, one or two public projects it matches.
InitInsert ==
    /\ now = StartNow
    /\ runs = [r \in RunIds |-> IdleRun]
    /\ outbox = {}
    /\ edits = 0
    /\ mw = IdleMw
    /\ catalog = InitialCatalog
    /\ watchlist = InitialWatchlist
    /\ env = FullEnv
    /\ saved_searches \in
          {[w \in WatchIds |-> IF w = "w1"
                               THEN WatchRow("u1", "daily", StartNow - 6 * day, f, TRUE)
                               ELSE NoRow] : f \in FilterChoices}
    /\ projects \in
          {[p \in ProjIds |-> IF p = 1 THEN ProjectRow(StartNow - day, "Uusimaa", TRUE)
                              ELSE second] :
             second \in {NoRow, ProjectRow(StartNow - 2 * day, "Uusimaa", TRUE)}}

\* The signed-in user's two watches, the watchlist page just opened.
InitWatchlist ==
    /\ now = StartNow
    /\ runs = [r \in RunIds |-> IdleRun]
    /\ outbox = {}
    /\ edits = 0
    /\ mw = IdleMw
    /\ catalog = InitialCatalog
    /\ watchlist = InitialWatchlist
    /\ env = FullEnv
    /\ saved_searches =
          [w \in WatchIds |->
             IF w = "w1" THEN WatchRow("u1", "daily", NullTime, NoFilters, TRUE)
             ELSE WatchRow("u1", "weekly", NullTime, NoFilters, FALSE)]
    /\ projects = [p \in ProjIds |-> NoRow]

-----------------------------------------------------------------------------
(* Specifications. *)

RunStep(r) ==
    \/ Request(r)
    \/ FetchWatches(r)
    \/ QueryProjects(r)
    \/ UpdateZero(r)
    \/ LookupUser(r)
    \/ SendEmail(r)
    \/ UpdateSent(r)
    \/ Throw(r)

Edit ==
    \/ \E id \in WatchIds : toggleEnabled(id)
    \/ \E id \in WatchIds : changeFrequency(id)
    \/ \E id \in WatchIds : remove(id)
    \/ \E id \in WatchIds : saveWatch(id)
    \/ \E p \in ProjIds : insertProject(p)

\* Invocations one after the other: a single handler at a time.
Next ==
    \/ RunStep("r1")
    \/ Tick

Spec == Init /\ [][Next]_vars

\* The scheduler's calls: the configured secret, no debug flag.
CronStep(r) ==
    /\ RunStep(r)
    /\ runs'[r].secret = env.CRON_SECRET
    /\ ~runs'[r].debug

\* The same, with the users' and the admin's writes in between.
NextEdits ==
    \/ CronStep("r1") /\ runs'["r1"].inv <= 1
    \/ Tick /\ now < StartNow + MaxEditTicks * TickMs
    \/ Edit

SpecEdits == InitEdits /\ [][NextEdits]_vars

\* Invocations that overlap in time: two handlers, each serving one
\* invocation, interleaved at their awaits; r1 names the request that
\* arrives first.
NextOverlap ==
    \/ CronStep("r1") /\ runs'["r1"].inv <= 1
    \/ CronStep("r2") /\ runs'["r2"].inv <= 1 /\ runs["r1"].inv >= 1
    \/ Tick /\ now < StartNow + MaxOverlapTicks * TickMs

SpecOverlap == InitSmall /\ [][NextOverlap]_vars

\* One scheduled invocation over the deployments for the project query.
NextQuery ==
    \/ CronStep("r1") /\ runs'["r1"].inv <= 1

SpecQuery == InitQuery /\ [][NextQuery]_vars

\* One scheduled invocation over the deployments for the digest's list.
NextList ==
    \/ CronStep("r1") /\ runs'["r1"].inv <= 1

SpecList == InitList /\ [][NextList]_vars

\* The scheduler's calls, one after the other, while the admin adds a
\* project.
NextInsert ==
    \/ CronStep("r1")
    \/ Tick
    \/ \E p \in ProjIds : insertProject(p)

SpecInsert == InitInsert /\ [][NextInsert]_vars

\* Two invocations, the second requested once the first has answered.
NextTwice ==
    \/ RunStep("r1") /\ runs'["r1"].inv <= 1
    \/ runs["r1"].pc = "done" /\ RunStep("r2") /\ runs'["r2"].inv <= 1
    \/ Tick /\ now < StartNow + MaxTwiceTicks * TickMs

SpecTwice == Init /\ [][NextTwice]_vars

\* Requests to the protected pages, one after the other.
NextMw == MwRequest \/ MwSetAll \/ MwGetUser

SpecMw == InitMw /\ [][NextMw]_vars

\* Navigations to the protected pages with their redirects followed, the
\* session staying as it is while one navigation lasts.
NextFollow ==
    \/ MwRequest
    \/ MwSetAll
    \/ mw.hops = 0 /\ MwGetUser
    \/ MwGetUserAgain
    \/ MwFollow

SpecFollow == InitMw /\ [][NextFollow]_vars

\* One user on the watchlist page, the requests answered in any order.
NextWatchlist ==
    \/ refresh
    \/ \E k \in 1..Len(watchlist.calls) : storeAnswers(k)
    \/ \E k \in 1..Len(watchlist.calls) : loadDone(k)
    \/ \E id \in WatchIds : wlToggleEnabled(id)
    \/ \E k \in 1..Len(watchlist.calls) : toggleEnabledDone(k)
    \/ \E id \in WatchIds : wlChangeFrequency(id)
    \/ \E k \in 1..Len(watchlist.calls) : changeFrequencyDone(k)
    \/ \E id \in WatchIds : startEditName(id)
    \/ setDraftName
    \/ cancelEditName
    \/ \E id \in WatchIds : saveName(id)
    \/ \E k \in 1..Len(watchlist.calls) : saveNameDone(k)
    \/ \E id \in WatchIds : wlRemove(id)
    \/ \E k \in 1..Len(watchlist.calls) : removeDone(k)

SpecWatchlist == InitWatchlist /\ [][NextWatchlist]_vars

\* One visit of the catalog page.
NextCatalog ==
    \/ fetchProjects
    \/ setQ \/ setRegion \/ setCity \/ setPhase \/ setPropertyType
    \/ clearFilters
    \/ setMapBounds \/ setLimitToMapView
    \/ setIsMobile \/ loadMore

SpecCatalog == InitCatalog /\ [][NextCatalog]_vars

-----------------------------------------------------------------------------
(* What the claims speak of. *)

\* The watches a run fetched.
Fetched(run) == {run.watches[k] : k \in 1..Len(run.watches)}

\* The digests the provider delivered for watch id in this invocation of r.
MailsOf(r, id) ==
    {m \in outbox : m.run = r /\ m.inv = runs[r].inv /\ m.watch = id}

\* The frequency periods as the specification states them, in seconds.
PeriodSeconds(freq) == IF freq = "daily" THEN 86400 ELSE 604800

DueAsSpecified(freq, lastSentAt, nowMs) ==
    \/ lastSentAt = NullTime
    \/ nowMs - lastSentAt >= PeriodSeconds(freq) * 1000

\* The watches counted in sent: the send succeeded and the update returned.
SentWatches(run) ==
    {id \in WatchIds : run.ans[id].send = "ok" /\ run.ans[id].up # "none"}

\* The public projects matching the watch's filters created in the three
\* days before t.
RecentMatches(w, t) ==
    {p \in DOMAIN projects :
        /\ projects[p] # NoRow
        /\ projects[p].is_public
        /\ applyProjectFilters(projects[p], w.filters)
        /\ projects[p].created_at > t - 3 * day
        /\ projects[p].created_at <= t}

-----------------------------------------------------------------------------
(* C1: the due check answers true for every watch never sent, and        *)
(* otherwise exactly when now - last_sent_at >= the period of the        *)
(* frequency, 86400 s daily and 604800 s weekly: for every stored watch  *)
(* at the current time, and for every due check a run made.              *)
C1_IsDue ==
    /\ \A id \in WatchIds :
         saved_searches[id] # NoRow =>
            isDue(saved_searches[id].frequency, saved_searches[id].last_sent_at, now)
              = DueAsSpecified(saved_searches[id].frequency,
                               saved_searches[id].last_sent_at, now)
    /\ \A r \in RunIds : \A w \in Fetched(runs[r]) :
         runs[r].dueAt[w.id] # NullTime =>
            (runs[r].outcome[w.id] # "notdue")
              = DueAsSpecified(w.frequency, w.last_sent_at, runs[r].dueAt[w.id])

\* A run found a weekly watch due exactly one period after its last send.
C1_Witness ==
    \E r \in RunIds : \E w \in Fetched(runs[r]) :
        /\ w.frequency = "weekly"
        /\ w.last_sent_at # NullTime
        /\ runs[r].dueAt[w.id] - w.last_sent_at = 604800 * 1000
        /\ runs[r].outcome[w.id] # "notdue"

(* C2: the window start of a due watch is last_sent_at when it is set,   *)
(* and otherwise the time of the due check minus one frequency period    *)
(* (one day for daily, seven days for weekly).                           *)
C2_SinceIsOnePeriodBack ==
    \A r \in RunIds : \A w \in Fetched(runs[r]) :
        runs[r].since[w.id] # NullTime =>
            runs[r].since[w.id] =
                IF w.last_sent_at # NullTime THEN w.last_sent_at
                ELSE runs[r].dueAt[w.id] - PeriodSeconds(w.frequency) * 1000

(* C3: a run over a single enabled weekly watch never sent, with two     *)
(* public matching projects created in the last three days and no call   *)
(* failing, sends exactly one email listing both projects, stores the    *)
(* time of the send as last_sent_at and answers sent = 1.                *)
C3_WeeklyFirstDigest ==
    \A r \in RunIds :
        LET run == runs[r] IN
        (/\ run.pc = "done" /\ run.status = 200 /\ ~run.debug
         /\ Len(run.watches) = 1
         /\ run.watches[1].frequency = "weekly"
         /\ run.watches[1].last_sent_at = NullTime
         /\ Cardinality(RecentMatches(run.watches[1], run.dueAt[run.watches[1].id])) = 2
         /\ run.ans[run.watches[1].id].q # "err"
         /\ run.ans[run.watches[1].id].user \notin {"err", "noemail"}
         /\ run.ans[run.watches[1].id].send # "err"
         /\ run.ans[run.watches[1].id].up # "err")
        => LET w == run.watches[1] IN
           /\ run.sent = 1
           /\ Cardinality(MailsOf(r, w.id)) = 1
           /\ \A m \in MailsOf(r, w.id) :
                {m.mail.listed[k] : k \in DOMAIN m.mail.listed}
                    = RecentMatches(w, run.dueAt[w.id])
           /\ run.ts[w.id] # NullTime
           /\ saved_searches[w.id].last_sent_at = run.ts[w.id]

\* Two matching projects of the last days, one weekly watch never sent, no
\* call failed, the run answered.
C3_Reached ==
    \E r \in RunIds :
        /\ runs[r].pc = "done" /\ runs[r].status = 200 /\ ~runs[r].debug
        /\ Len(runs[r].watches) = 1
        /\ runs[r].watches[1].frequency = "weekly"
        /\ runs[r].watches[1].last_sent_at = NullTime
        /\ Cardinality(RecentMatches(runs[r].watches[1],
                                     runs[r].dueAt[runs[r].watches[1].id])) = 2
        /\ runs[r].ans[runs[r].watches[1].id].q = "zero"

C5_RetrySameWindow ==
    \A r \in RunIds : \A w \in Fetched(runs[r]) :
        runs[r].ans[w.id].send = "err" =>
            /\ saved_searches[w.id].last_sent_at = w.last_sent_at
            /\ runs[r].sent = Cardinality(SentWatches(runs[r]))
            /\ MailsOf(r, w.id) = {}
            /\ isDue(saved_searches[w.id].frequency,
                     saved_searches[w.id].last_sent_at, now)
            /\ sinceOf(saved_searches[w.id], now) = runs[r].since[w.id]

(* C6: when the project query of a due watch returns an error, or it     *)
(* returns matches and the owner's email cannot be resolved (lookup      *)
(* error or user without email), no email is sent for the watch, no      *)
(* update is issued and its stored last_sent_at is the fetched one, sent *)
(* counts only the watches sent, and the stored watch is due at any      *)
(* later time.                                                           *)
C6_QueryOrLookupFailure ==
    \A r \in RunIds : \A w \in Fetched(runs[r]) :
        (\/ runs[r].ans[w.id].q = "err"
         \/ (runs[r].ans[w.id].q = "some" /\ runs[r].ans[w.id].user \in {"err", "noemail"}))
        => /\ runs[r].ans[w.id].send = "none"
           /\ MailsOf(r, w.id) = {}
           /\ runs[r].ts[w.id] = NullTime
           /\ runs[r].ans[w.id].up = "none"
           /\ saved_searches[w.id].last_sent_at = w.last_sent_at
           /\ runs[r].sent = Cardinality(SentWatches(runs[r]))
           /\ isDue(saved_searches[w.id].frequency,
                    saved_searches[w.id].last_sent_at, now)

\* A run that ended after a watch with matches whose owner has no email.
C6_Witness ==
    \E r \in RunIds : \E w \in Fetched(runs[r]) :
        /\ runs[r].ans[w.id].q = "some"
        /\ runs[r].ans[w.id].user = "noemail"
        /\ runs[r].outcome[w.id] = "nouser"
        /\ runs[r].pc = "done"
        /\ now > runs[r].dueAt[w.id]

(* C7: a watch's stored last_sent_at, once set, never takes an earlier   *)
(* value and never returns to null, whatever the digest invocations      *)
(* (overlapping ones included) do.                                       *)
C7_LastSentMonotone ==
    [][\A id \in WatchIds :
         (/\ saved_searches[id] # NoRow
          /\ saved_searches'[id] # NoRow
          /\ saved_searches[id].last_sent_at # NullTime)
         => /\ saved_searches'[id].last_sent_at # NullTime
            /\ saved_searches'[id].last_sent_at >= saved_searches[id].last_sent_at
      ]_vars

(* C8: a request whose secret is absent, empty or not equal to the        *)
(* configured CRON_SECRET is answered 401 and nothing is processed: no   *)
(* watch is fetched or counted, no due check and no project query is     *)
(* made, no owner is looked up, no email is sent and no update of        *)
(* last_sent_at is issued.                                               *)
C8_Unauthorized ==
    \A r \in RunIds :
        LET run == runs[r] IN
        (/\ run.inv >= 1
         /\ (run.secret = Null \/ run.secret = "" \/ run.secret # env.CRON_SECRET))
        => /\ run.pc = "done"
           /\ run.status = 401
           /\ run.watches = <<>>
           /\ run.checked = 0
           /\ run.sent = 0
           /\ run.debugRows = <<>>
           /\ \A id \in WatchIds :
                /\ run.dueAt[id] = NullTime
                /\ run.since[id] = NullTime
                /\ run.ts[id] = NullTime
                /\ run.ans[id] = NoAnswers
                /\ MailsOf(r, id) = {}

\* A request with a secret other than the configured one was answered while
\* the store holds an enabled watch that is due.
C8_Witness ==
    \E r \in RunIds : \E id \in WatchIds :
        /\ runs[r].inv >= 1
        /\ runs[r].secret = "wrong"
        /\ env.CRON_SECRET = "s3cret"
        /\ runs[r].status = 401
        /\ saved_searches[id] # NoRow
        /\ saved_searches[id].is_enabled
        /\ isDue(saved_searches[id].frequency, saved_searches[id].last_sent_at, now)

\* The run was called with debug=1 and the configured secret, and answered 200.
DebugRunEnded(run) ==
    /\ run.debug
    /\ run.secret = env.CRON_SECRET
    /\ run.pc = "done"
    /\ run.status = 200

(* C9, as stated: a debug run that answered has made the due check and   *)
(* the project query for every enabled watch it fetched and returns one  *)
(* debug row for each; it sent no email, issued no update and sent is 0. *)
C9_DebugQueriesEveryWatch ==
    \A r \in RunIds :
        LET run == runs[r] IN
        DebugRunEnded(run) =>
            /\ Len(run.debugRows) = Len(run.watches)
            /\ run.sent = 0
            /\ \A w \in Fetched(run) :
                 /\ run.dueAt[w.id] # NullTime
                 /\ run.ans[w.id].q # "none"
                 /\ run.ts[w.id] = NullTime
                 /\ MailsOf(r, w.id) = {}

(* C9, amended: no step of a debug run changes the stored watches or     *)
(* delivers an email, the run looks up no owner, issues no update and    *)
(* counts nothing as sent; when it answers 200 it has made the due check *)
(* for every enabled watch it fetched and the project query for every    *)
(* one of them that was due, and it returns one debug row per watch: the *)
(* window start and the number of projects found for a due watch (null   *)
(* when the query failed), nulls for a watch that was not due.           *)
C9_DebugRun ==
    [][\A r \in RunIds :
         LET run == runs[r]
             after == runs'[r]
         IN  (after # run /\ after.debug /\ after.secret = env.CRON_SECRET) =>
             /\ saved_searches' = saved_searches
             /\ outbox' = outbox
             /\ after.sent = 0
             /\ after.pc \notin {"update0", "lookup", "send", "update1"}
             /\ \A id \in WatchIds :
                  /\ after.ts[id] = NullTime
                  /\ after.ans[id].user = "none"
                  /\ after.ans[id].send = "none"
                  /\ after.ans[id].up = "none"
             /\ DebugRunEnded(after) =>
                  /\ after.checked = Len(after.watches)
                  /\ Len(after.debugRows) = Len(after.watches)
                  /\ \A k \in 1..Len(after.watches) :
                       LET w == after.watches[k]
                           row == after.debugRows[k]
                       IN  /\ row.watch_id = w.id
                           /\ after.dueAt[w.id] # NullTime
                           /\ row.due = isDue(w.frequency, w.last_sent_at, after.dueAt[w.id])
                           /\ IF row.due
                              THEN /\ after.ans[w.id].q # "none"
                                   /\ row.since = sinceOf(w, after.dueAt[w.id])
                                   /\ row.projects_found =
                                        IF after.ans[w.id].q = "err" THEN -1
                                        ELSE Len(projectsQuery(row.since, w.filters))
                              ELSE /\ after.ans[w.id].q = "none"
                                   /\ row.since = NullTime
                                   /\ row.projects_found = -1
      ]_vars

\* A debug run answered 200 over two watches, one not due and one due with
\* projects found, and the stored watches are the fetched ones.
C9_Witness ==
    \E r \in RunIds :
        /\ DebugRunEnded(runs[r])
        /\ Len(runs[r].debugRows) = 2
        /\ \E k \in 1..2 : ~runs[r].debugRows[k].due
        /\ \E k \in 1..2 : runs[r].debugRows[k].projects_found > 0
        /\ \A w \in Fetched(runs[r]) :
             saved_searches[w.id].last_sent_at = w.last_sent_at
        /\ outbox = {}

\* The code path a watch takes, from its own due check and the answers the
\* store, the auth service and the provider gave for it.
ExpectedOutcome(run, w) ==
    LET a == run.ans[w.id] IN
    IF ~isDue(w.frequency, w.last_sent_at, run.dueAt[w.id]) THEN "notdue"
    ELSE IF a.q = "err" THEN "qerr"
    ELSE IF run.debug THEN "debug"
    ELSE IF a.q = "zero" THEN "zero"
    ELSE IF a.user \in {"err", "noemail"} THEN "nouser"
    ELSE IF a.send = "err" THEN "senderr"
    ELSE "sent"

\* The stored watches that are enabled, in the order of the fetch.
EnabledIds ==
    {id \in WatchIds : saved_searches[id] # NoRow /\ saved_searches[id].is_enabled}

(* C10: a run that passed the secret and configuration checks, whose     *)
(* watch fetch succeeded and in which no call threw, answers 200 with    *)
(* checked equal to the number of enabled watches it fetched, whatever   *)
(* per-watch failures (query error, missing owner email, send error)     *)
(* happened: every fetched watch had its due check, every due one its    *)
(* query, and each watch's outcome, email and stored last_sent_at follow *)
(* from its own due check and its own answers alone; sent counts the     *)
(* watches whose send succeeded.                                         *)
C10_FailuresIsolated ==
    \A r \in RunIds :
        LET run == runs[r] IN
        (/\ run.pc = "done"
         /\ run.inv >= 1
         /\ authorized(run.secret)
         /\ ~missingConfig
         /\ run.fatal = "none")
        => /\ run.status = 200
           /\ run.checked = Len(run.watches)
           /\ {w.id : w \in Fetched(run)} = EnabledIds
           /\ Len(run.watches) = Cardinality(EnabledIds)
           /\ run.sent = Cardinality(SentWatches(run))
           /\ \A w \in Fetched(run) :
                /\ run.dueAt[w.id] # NullTime
                /\ run.outcome[w.id] = ExpectedOutcome(run, w)
                /\ (run.outcome[w.id] # "notdue") = (run.ans[w.id].q # "none")
                /\ (MailsOf(r, w.id) # {}) = (run.ans[w.id].send = "ok")
                /\ saved_searches[w.id].last_sent_at =
                      IF run.ans[w.id].up = "ok" THEN run.ts[w.id]
                      ELSE w.last_sent_at

\* A run answered after its first watch failed (query error, owner without
\* email or send error) and its second watch was sent and counted.
C10_Witness ==
    \E r \in RunIds :
        /\ runs[r].pc = "done" /\ runs[r].status = 200
        /\ Len(runs[r].watches) = 2
        /\ runs[r].outcome[runs[r].watches[1].id] \in {"qerr", "nouser", "senderr"}
        /\ runs[r].outcome[runs[r].watches[2].id] = "sent"
        /\ MailsOf(r, runs[r].watches[2].id) # {}
        /\ runs[r].checked = 2
        /\ runs[r].sent = 1

(* C11: a run called with the configured secret answers 500 exactly when *)
(* a required setting (datastore URL, service key, email key) is         *)
(* missing, the watch fetch returned an error, or an awaited call threw; *)
(* with a setting missing it has answered 500 with no watch fetched or   *)
(* counted, no query, lookup or send made and no update issued.          *)
C11_WholesaleFailure ==
    \A r \in RunIds :
        LET run == runs[r]
            configMissing == \E k \in {"NEXT_PUBLIC_SUPABASE_URL",
                                       "SUPABASE_SERVICE_ROLE_KEY",
                                       "RESEND_API_KEY"} :
                                env[k] \in {Undefined, ""}
        IN
        (run.inv >= 1 /\ run.secret # Null /\ run.secret # ""
                      /\ run.secret = env.CRON_SECRET)
        => /\ (run.status = 500) =
                 (run.pc = "done" /\ (configMissing \/ run.fatal \in {"werr", "throw"}))
           /\ run.pc = "done" => run.status \in {200, 500}
           /\ configMissing =>
                /\ run.pc = "done"
                /\ run.status = 500
                /\ run.fatal = "none"
                /\ run.watches = <<>>
                /\ run.checked = 0
                /\ run.sent = 0
                /\ \A id \in WatchIds :
                     /\ run.dueAt[id] = NullTime
                     /\ run.ts[id] = NullTime
                     /\ run.ans[id] = NoAnswers
                     /\ MailsOf(r, id) = {}

\* The email key is missing, the store holds an enabled due watch, and a run
\* with the configured secret has answered 500.
C11_Witness ==
    \E r \in RunIds : \E id \in WatchIds :
        /\ runs[r].inv >= 1
        /\ runs[r].secret = env.CRON_SECRET
        /\ env.RESEND_API_KEY = Undefined
        /\ runs[r].status = 500
        /\ saved_searches[id] # NoRow
        /\ saved_searches[id].is_enabled
        /\ isDue(saved_searches[id].frequency, saved_searches[id].last_sent_at, now)

(* C12: for a fetched watch that is not due at its due check, the run    *)
(* makes no project query, no owner lookup, no send and issues no        *)
(* update; every stored field of the watch including last_sent_at is as  *)
(* fetched; the watch is counted in checked and not in sent.             *)
C12_NotDueSkipped ==
    \A r \in RunIds :
        LET run == runs[r] IN
        \A k \in 1..Len(run.watches) :
            LET w == run.watches[k] IN
            (/\ run.dueAt[w.id] # NullTime
             /\ ~isDue(w.frequency, w.last_sent_at, run.dueAt[w.id]))
            => /\ run.ans[w.id] = NoAnswers
               /\ run.since[w.id] = NullTime
               /\ run.ts[w.id] = NullTime
               /\ MailsOf(r, w.id) = {}
               /\ saved_searches[w.id] =
                     WatchRow(w.user_id, w.frequency, w.last_sent_at,
                              w.filters, w.is_enabled)
               /\ run.checked >= k
               /\ run.i > k
               /\ w.id \notin SentWatches(run)
               /\ run.sent = Cardinality(SentWatches(run))

\* A run answered over two watches: the first was not due, the second was
\* sent; checked is 2 and sent is 1.
C12_Witness ==
    \E r \in RunIds :
        /\ runs[r].pc = "done" /\ runs[r].status = 200
        /\ Len(runs[r].watches) = 2
        /\ ~isDue(runs[r].watches[1].frequency, runs[r].watches[1].last_sent_at,
                  runs[r].dueAt[runs[r].watches[1].id])
        /\ runs[r].outcome[runs[r].watches[1].id] = "notdue"
        /\ runs[r].outcome[runs[r].watches[2].id] = "sent"
        /\ runs[r].checked = 2
        /\ runs[r].sent = 1

\* The ids of the watches a run holds.
FetchedIds(run) == {run.watches[k].id : k \in 1..Len(run.watches)}

(* C13: the watches a run evaluates are the rows whose is_enabled is     *)
(* true when its fetch returns: no other watch is counted in checked,    *)
(* has a due check, query, lookup or send made for it, is emailed, or    *)
(* has last_sent_at (or any field) written by a step of that run,        *)
(* whatever the users toggle, change, remove or save meanwhile.          *)
C13_OnlyEnabledFetched ==
    [][\A r \in RunIds :
         LET run == runs[r]
             after == runs'[r]
         IN  after # run =>
             /\ (run.pc = "fetch" /\ after.fatal = "none") =>
                    /\ FetchedIds(after) = EnabledIds
                    /\ \A w \in Fetched(after) : w.is_enabled
             /\ run.pc \in AwaitPcs \ {"fetch"} => after.watches = run.watches
             /\ after.checked <= Len(after.watches)
             /\ \A id \in WatchIds \ FetchedIds(after) :
                    /\ after.dueAt[id] = NullTime
                    /\ after.ts[id] = NullTime
                    /\ after.ans[id] = NoAnswers
                    /\ after.outcome[id] = "none"
                    /\ {m \in outbox' : m.run = r /\ m.inv = after.inv /\ m.watch = id} = {}
                    /\ saved_searches'[id] = saved_searches[id]
      ]_vars

\* A run answered after evaluating and sending the one enabled watch, while
\* the other watch, disabled when the fetch returned and still stored as it
\* was, was left out.
C13_Witness ==
    \E r \in RunIds : \E id \in WatchIds :
        /\ runs[r].pc = "done" /\ runs[r].status = 200
        /\ saved_searches[id] # NoRow
        /\ ~saved_searches[id].is_enabled
        /\ edits = 0
        /\ id \notin FetchedIds(runs[r])
        /\ runs[r].checked = 1
        /\ runs[r].sent = 1
        /\ MailsOf(r, id) = {}

\* A filter field that is present: neither absent nor null (nor empty).
Present(v) == v # Null /\ v # Undefined /\ v # ""

\* The projects the query is specified to return for watch w and window
\* start since.
SpecifiedMatches(w, since) ==
    {p \in DOMAIN projects :
        /\ projects[p] # NoRow
        /\ projects[p].is_public
        /\ projects[p].created_at > since
        /\ Present(w.filters.region) => projects[p].region = w.filters.region
        /\ Present(w.filters.city) => projects[p].city = w.filters.city
        /\ Present(w.filters.phase) => projects[p].phase = w.filters.phase
        /\ Present(w.filters.property_type) =>
               projects[p].property_type = w.filters.property_type
        /\ (w.filters.q # NullText /\ Trim(w.filters.q) # <<>>) =>
               \/ ilikeLiteral(projects[p].name, Trim(w.filters.q))
               \/ ilikeLiteral(projects[p].developer, Trim(w.filters.q))
               \/ ilikeLiteral(projects[p].builder, Trim(w.filters.q))}

(* C14: the answer of a watch's project query holds exactly the public   *)
(* projects created strictly after the window start that equal each      *)
(* present filter field and, for a non-blank term, contain the trimmed   *)
(* term case-insensitively in name, developer or builder; each once,     *)
(* newest first.                                                         *)
C14_QueryResult ==
    \A r \in RunIds :
        LET run == runs[r] IN
        (run.pc \in {"lookup", "update0"} /\ run.ans[curWatch(run).id].q # "err") =>
            LET w == curWatch(run)
                rows == run.found
            IN  /\ {rows[k] : k \in DOMAIN rows} = SpecifiedMatches(w, run.since[w.id])
                /\ Len(rows) = Cardinality(SpecifiedMatches(w, run.since[w.id]))
                /\ \A j, k \in DOMAIN rows :
                     j < k => projects[rows[j]].created_at >= projects[rows[k]].created_at

\* A query with a term and a region answered one of two public projects of
\* the window, the other being of another region.
C14_Reached ==
    \E r \in RunIds :
        /\ runs[r].pc = "lookup"
        /\ curWatch(runs[r]).filters.q = <<"o", "y">>
        /\ curWatch(runs[r]).filters.region = "Uusimaa"
        /\ Len(runs[r].found) = 1
        /\ \A p \in ProjIds : projects[p].is_public /\ projects[p].created_at = StartNow
        /\ \E p \in ProjIds : projects[p].region = "Pirkanmaa"

(* C15: a digest lists at most the first 30 of the watch's matching      *)
(* projects, newest first, its subject and body report the number of     *)
(* all matches, and it carries the truncation note exactly when there    *)
(* are more than 30 matches.                                             *)
C15_ListTruncated ==
    \A m \in outbox :
        LET run == runs[m.run]
            w == CHOOSE x \in Fetched(run) : x.id = m.watch
            matches == matchingProjects(run.since[m.watch], w.filters)
        IN  /\ m.mail.total = Cardinality(matches)
            /\ Len(m.mail.listed) = IF m.mail.total > 30 THEN 30 ELSE m.mail.total
            /\ {m.mail.listed[k] : k \in DOMAIN m.mail.listed} \subseteq matches
            /\ \A j, k \in DOMAIN m.mail.listed :
                 j < k => projects[m.mail.listed[j]].created_at
                            > projects[m.mail.listed[k]].created_at
            /\ \A p \in matches :
                 (\E k \in DOMAIN m.mail.listed : m.mail.listed[k] = p)
                 \/ \A k \in DOMAIN m.mail.listed :
                      projects[m.mail.listed[k]].created_at > projects[p].created_at
            /\ m.mail.truncated = (m.mail.total > 30)

\* A digest was sent for 31 matches: it lists 30 and carries the note.
C15_Witness ==
    \E m \in outbox :
        /\ m.mail.total = 31
        /\ Len(m.mail.listed) = 30
        /\ m.mail.truncated

-----------------------------------------------------------------------------
(* C16: the middleware answers every request to a path under /dashboard  *)
(* or /projects whose auth lookup gave no user or an error with a        *)
(* redirect to /login whose next parameter is the request's path; a      *)
(* lookup error is never answered with anything but that redirect.       *)

IsProtectedPath(pathname) ==
    StartsWith(pathname, DashboardPath) \/ StartsWith(pathname, ProjectsPath)

NextParams(search) == {kv[2] : kv \in {x \in search : x[1] = "next"}}

C16_LoginRedirect ==
    (mw.pc = "done" /\ IsProtectedPath(mw.pathname)
        /\ mw.auth \in {"error", "nouser"})
    => /\ mw.returned.kind = "redirect"
       /\ mw.returned.pathname = LoginPath
       /\ NextParams(mw.returned.search) = {mw.pathname}

C16_Witness ==
    /\ mw.pc = "done" /\ mw.auth = "error"
    /\ mw.pathname = DashboardPath \o <<"/", "x">>
    /\ mw.search # {}
    /\ mw.returned.kind = "redirect" /\ mw.returned.pathname = LoginPath

-----------------------------------------------------------------------------
(* C17: a request to a path under /dashboard is passed through only if   *)
(* the lookup gave a user whose email, lowercased, equals a trimmed and  *)
(* lowercased non-empty entry of the comma-separated ADMIN_EMAILS; every *)
(* user whose email is not such an entry is redirected to /projects.     *)

AllowListed(email) ==
    /\ email # NullText
    /\ env.ADMIN_EMAILS # UndefinedText
    /\ LET entries == Split(env.ADMIN_EMAILS)
       IN  \E k \in 1..Len(entries) :
              /\ Trim(entries[k]) # <<>>
              /\ LowerText(Trim(entries[k])) = LowerText(email)

C17_AdminOnly ==
    (mw.pc = "done" /\ StartsWith(mw.pathname, DashboardPath))
    => /\ mw.returned.kind = "next"
            => (mw.auth = "user" /\ AllowListed(mw.email))
       /\ (mw.auth = "user" /\ ~AllowListed(mw.email))
            => /\ mw.returned.kind = "redirect"
               /\ mw.returned.pathname = ProjectsPath

C17_Witness ==
    /\ mw.pc = "done" /\ mw.pathname = DashboardPath
    /\ mw.auth = "user" /\ mw.email = <<"c", "@", "x">>
    /\ env.ADMIN_EMAILS = <<" ", "A", "d", "@", "x", " ", ",", "b", "@", "x">>
    /\ mw.returned.kind = "redirect" /\ mw.returned.pathname = ProjectsPath

-----------------------------------------------------------------------------
(* C18: the cookies the session check set during a request (setAll) are  *)
(* on the response the middleware returns for it, in every branch:       *)
(* pass-through, redirect to /login and redirect to /projects.           *)

C18_CookiesOnResponse ==
    mw.pc = "done" => mw.refreshed \subseteq mw.returned.cookies

C18_Reached ==
    /\ mw.pc = "done" /\ mw.refreshed # {}
    /\ mw.returned.kind = "redirect" /\ mw.returned.pathname = ProjectsPath
    /\ mw.auth = "user"

-----------------------------------------------------------------------------
(* C19: a loaded project is in filteredProjects exactly when every        *)
(* selected categorical filter matches (region and property type with    *)
(* null read as the empty string, city and phase as stored) and the      *)
(* trimmed term is empty or, lowercased, a substring of the lowercased   *)
(* concatenation of name, region, city, phase, location, developer,      *)
(* builder, property type and notes; under region "Uusimaa" and term     *)
(* "Oy": exactly when its region is "Uusimaa" and the concatenation      *)
(* contains "oy".                                                        *)

IdsOf(rows) == {rows[k].id : k \in 1..Len(rows)}

NullAsEmpty(t) == IF t = NullText THEN <<>> ELSE t

SearchableText(p) ==
    LowerText(p.name \o <<" ">> \o NullAsEmpty(p.region) \o <<" ">> \o p.city
              \o <<" ">> \o p.phase \o <<" ">> \o NullAsEmpty(p.location)
              \o <<" ">> \o NullAsEmpty(p.developer) \o <<" ">> \o NullAsEmpty(p.builder)
              \o <<" ">> \o NullAsEmpty(p.property_type)
              \o <<" ">> \o NullAsEmpty(p.additional_info))

CategoriesMatch(p) ==
    /\ catalog.region # <<>> => NullAsEmpty(p.region) = catalog.region
    /\ catalog.city # <<>> => p.city = catalog.city
    /\ catalog.phase # <<>> => p.phase = catalog.phase
    /\ catalog.propertyType # <<>> => NullAsEmpty(p.property_type) = catalog.propertyType

TermMatches(p) ==
    Trim(catalog.q) # <<>> => Contains(SearchableText(p), LowerText(Trim(catalog.q)))

C19_FilteredProjects ==
    /\ \A k \in 1..Len(catalog.projects) :
          LET p == catalog.projects[k]
          IN  (p.id \in IdsOf(filteredProjects)) <=> (CategoriesMatch(p) /\ TermMatches(p))
    /\ IdsOf(filteredProjects) \subseteq IdsOf(catalog.projects)
    /\ (catalog.region = Uusimaa /\ catalog.q = <<"O", "y">> /\ catalog.city = <<>>
          /\ catalog.phase = <<>> /\ catalog.propertyType = <<>>)
        => \A k \in 1..Len(catalog.projects) :
              LET p == catalog.projects[k]
              IN  (p.id \in IdsOf(filteredProjects))
                    <=> (p.region = Uusimaa /\ Contains(SearchableText(p), <<"o", "y">>))

C19_Witness ==
    /\ Len(catalog.projects) = 5
    /\ catalog.region = Uusimaa /\ catalog.q = <<"O", "y">>
    /\ catalog.city = <<>> /\ catalog.phase = <<>> /\ catalog.propertyType = <<>>
    /\ IdsOf(filteredProjects) = {1, 4}

-----------------------------------------------------------------------------
(* C20: whatever the viewport and the setting of the limit-to-map-view   *)
(* toggle, every project that passes the filters and whose latitude or   *)
(* longitude is null or does not parse is in listProjects; a project     *)
(* that passes the filters and is not in the list has coordinates lying  *)
(* outside the current bounds.                                           *)

NullOrUnparseable(v) ==
    \/ v.t = "null"
    \/ v.t = "string" /\ parseFloat(v.s) = {}

NumberOf(v) == IF v.t = "number" THEN v.n ELSE CHOOSE n \in parseFloat(v.s) : TRUE

OutsideBounds(p) ==
    /\ ~catalog.mapBounds.isNull
    /\ ~NullOrUnparseable(p.latitude) /\ ~NullOrUnparseable(p.longitude)
    /\ \/ NumberOf(p.latitude) < catalog.mapBounds.south
       \/ NumberOf(p.latitude) > catalog.mapBounds.north
       \/ NumberOf(p.longitude) < catalog.mapBounds.west
       \/ NumberOf(p.longitude) > catalog.mapBounds.east

C20_NoCoordsListed ==
    \A k \in 1..Len(filteredProjects) :
        LET p == filteredProjects[k]
        IN  /\ (NullOrUnparseable(p.latitude) \/ NullOrUnparseable(p.longitude))
                => p.id \in IdsOf(listProjects)
            /\ p.id \notin IdsOf(listProjects)
                => (catalog.limitToMapView /\ OutsideBounds(p))

C20_Witness ==
    /\ Len(catalog.projects) = 5
    /\ catalog.limitToMapView
    /\ catalog.mapBounds = [isNull |-> FALSE, south |-> 0, west |-> 0, north |-> 1, east |-> 1]
    /\ IdsOf(filteredProjects) = {1, 2, 3, 4, 5}
    /\ IdsOf(listProjects) = {2, 3, 5}

-----------------------------------------------------------------------------
(* C21: the visible list is the first visibleCount entries of the list;  *)
(* a step that raises visibleCount under an unchanged batch size (load   *)
(* more) raises it by exactly one batch; and every step that changes the *)
(* term, the region, city, phase or property-type filter, the limit      *)
(* toggle or the map viewport leaves visibleCount at one batch.          *)

BatchSize(c) == IF c.isMobile THEN 15 ELSE 30

FirstEntries(list, n) ==
    [k \in 1..(IF n < Len(list) THEN n ELSE Len(list)) |-> list[k]]

C21_VisibleIsPrefix == visibleProjects = FirstEntries(listProjects, catalog.visibleCount)

C21_Pagination ==
    /\ []C21_VisibleIsPrefix
    /\ [][
        /\ (catalog'.isMobile = catalog.isMobile
               /\ catalog'.visibleCount > catalog.visibleCount)
            => catalog'.visibleCount = catalog.visibleCount + BatchSize(catalog)
        /\ (\/ catalog'.q # catalog.q
            \/ catalog'.region # catalog.region
            \/ catalog'.city # catalog.city
            \/ catalog'.phase # catalog.phase
            \/ catalog'.propertyType # catalog.propertyType
            \/ catalog'.limitToMapView # catalog.limitToMapView
            \/ catalog'.mapBounds # catalog.mapBounds)
            => catalog'.visibleCount = BatchSize(catalog') ]_vars

C21_Witness ==
    /\ catalog.isMobile /\ catalog.visibleCount = 45
    /\ Len(listProjects) = MaxRows /\ Len(visibleProjects) = MaxRows
    /\ ~catalog.mapBounds.isNull

-----------------------------------------------------------------------------
(* C22, as stated: after a run that answered 200 and in which every      *)
(* update of last_sent_at and every send succeeded, a run requested      *)
(* right afterwards (its due checks at the time of the first run's due   *)
(* checks) that answers 200 sends no email, issues no update of          *)
(* last_sent_at, and returns the first run's checked and sent = 0.       *)

\* The second run's due checks read the clock the first run's read.
RightAfter(first, second) ==
    \A w \in WatchIds :
        second.dueAt[w] # NullTime => second.dueAt[w] = first.dueAt[w]

BothAnswered ==
    /\ runs["r1"].pc = "done" /\ runs["r1"].status = 200
    /\ runs["r2"].pc = "done" /\ runs["r2"].status = 200
    /\ RightAfter(runs["r1"], runs["r2"])

SecondRunIdle ==
    /\ {m \in outbox : m.run = "r2"} = {}
    /\ \A w \in WatchIds : runs["r2"].ans[w].up = "none"
    /\ runs["r2"].checked = runs["r1"].checked
    /\ runs["r2"].sent = 0

C22_WritesAndSendsSucceeded ==
    (/\ BothAnswered
     /\ \A w \in WatchIds : runs["r1"].ans[w].up # "err" /\ runs["r1"].ans[w].send # "err")
    => SecondRunIdle

(* C22, amended: the same when the first run did not carry the debug     *)
(* flag and every one of its calls succeeded: project queries, owner     *)
(* lookups (each giving an email), updates and sends.                    *)
C22_AllCallsSucceeded ==
    (/\ BothAnswered
     /\ ~runs["r1"].debug
     /\ \A w \in WatchIds :
           /\ runs["r1"].ans[w].q # "err"
           /\ runs["r1"].ans[w].user \in {"none", "ok"}
           /\ runs["r1"].ans[w].up # "err"
           /\ runs["r1"].ans[w].send # "err")
    => SecondRunIdle

C22_Witness ==
    /\ BothAnswered
    /\ ~runs["r1"].debug
    /\ runs["r1"].sent = 1 /\ runs["r1"].checked = 2
    /\ \E w \in WatchIds : runs["r1"].ans[w].q = "zero" /\ runs["r1"].ans[w].up = "ok"
    /\ \A w \in WatchIds : runs["r1"].ans[w].q # "err" /\ runs["r1"].ans[w].up # "err"
    /\ runs["r2"].checked = 2 /\ runs["r2"].sent = 0
    /\ \A w \in WatchIds : runs["r2"].outcome[w] = "notdue"

-----------------------------------------------------------------------------
(* C23: a run works on one watch at a time, in fetch order: while a call *)
(* is awaited it is a call for the watch at the loop's position, made    *)
(* after that watch's earlier calls returned (query, then lookup, then   *)
(* send, then the update); every watch before it is finished and no      *)
(* call, due check or email has been made for any watch after it.        *)

CallsInOrder(pc, a) ==
    /\ pc = "query" => a = NoAnswers
    /\ pc = "update0" => a = [NoAnswers EXCEPT !.q = "zero"]
    /\ pc = "lookup" => a = [NoAnswers EXCEPT !.q = "some"]
    /\ pc = "send" => a = [NoAnswers EXCEPT !.q = "some", !.user = "ok"]
    /\ pc = "update1" => a = [NoAnswers EXCEPT !.q = "some", !.user = "ok", !.send = "ok"]

C23_OneWatchAtATime ==
    \A r \in RunIds :
        LET run == runs[r]
            n == Len(run.watches)
            pos == IF run.pc = "done" THEN n + 1 ELSE run.i
        IN  (run.pc \in (AwaitPcs \ {"fetch"}) \/ (run.pc = "done" /\ run.status = 200))
            => /\ run.pc # "done" =>
                     /\ run.i \in 1..n
                     /\ CallsInOrder(run.pc, run.ans[run.watches[run.i].id])
                     /\ run.outcome[run.watches[run.i].id] = "none"
               /\ \A k \in 1..n :
                     LET id == run.watches[k].id
                     IN  /\ k < pos => run.outcome[id] # "none"
                         /\ k > pos =>
                               /\ run.ans[id] = NoAnswers
                               /\ run.outcome[id] = "none"
                               /\ run.dueAt[id] = NullTime
                               /\ {m \in outbox : m.run = r /\ m.inv = run.inv
                                                  /\ m.watch = id} = {}
               /\ \A j, k \in 1..n : j < k =>
                     \E a, b \in 1..Len(WatchOrder) :
                        /\ a < b
                        /\ WatchOrder[a] = run.watches[j].id
                        /\ WatchOrder[b] = run.watches[k].id

C23_Witness ==
    \E r \in RunIds :
        /\ runs[r].pc = "send" /\ runs[r].i = 2
        /\ runs[r].outcome[runs[r].watches[1].id] = "sent"
        /\ runs[r].ans[runs[r].watches[2].id].user = "ok"

-----------------------------------------------------------------------------
(* C24: invocations that overlap take no lock and detect no conflict:    *)
(* a run's fetch reads the stored watches as they are, whatever another  *)
(* run is doing with them; a send the provider accepts is delivered      *)
(* even when another run has mailed the same watch; an update the store  *)
(* accepts is applied whatever was stored meanwhile.  So two runs can    *)
(* both read a watch as due before either writes, and both send a digest *)
(* for the same watch and window (the witness).                          *)

C24_NoLockNoConflictCheck ==
    [][\A r \in RunIds :
         LET run == runs[r]
             after == runs'[r]
         IN  (after # run /\ after.fatal = "none") =>
             /\ (run.pc = "fetch" /\ after.status # 500) =>
                    \A k \in 1..Len(after.watches) :
                        LET w == after.watches[k]
                        IN  /\ w.last_sent_at = saved_searches[w.id].last_sent_at
                            /\ after.dueAt[w.id] # NullTime =>
                                  ((after.outcome[w.id] # "notdue")
                                     <=> DueAsSpecified(w.frequency, w.last_sent_at, now))
             /\ (run.pc = "send" /\ after.ans[curWatch(run).id].send = "ok") =>
                    \E m \in outbox' \ outbox :
                        m.run = r /\ m.watch = curWatch(run).id
             /\ (run.pc \in {"update0", "update1"}
                   /\ after.ans[curWatch(run).id].up = "ok") =>
                    saved_searches'[curWatch(run).id].last_sent_at
                        = run.ts[curWatch(run).id]
      ]_vars

\* Both runs mailed the same watch, fetched with the same last_sent_at,
\* for the same window, and both count it as sent.
C24_Witness ==
    \E id \in WatchIds :
        /\ runs["r1"].pc = "done" /\ runs["r2"].pc = "done"
        /\ runs["r1"].sent >= 1 /\ runs["r2"].sent >= 1
        /\ runs["r1"].since[id] # NullTime
        /\ runs["r1"].since[id] = runs["r2"].since[id]
        /\ \E m1, m2 \in outbox :
              /\ m1.run = "r1" /\ m2.run = "r2"
              /\ m1.watch = id /\ m2.watch = id
              /\ m1.mail = m2.mail
        /\ runs["r1"].outcome[id] = "sent" /\ runs["r2"].outcome[id] = "sent"
        /\ \E j \in 1..Len(runs["r1"].watches), k \in 1..Len(runs["r2"].watches) :
              /\ runs["r1"].watches[j].id = id /\ runs["r2"].watches[k].id = id
              /\ runs["r1"].watches[j].last_sent_at = runs["r2"].watches[k].last_sent_at

-----------------------------------------------------------------------------
(* C25: no matching project is lost between digests.  For a watch a run  *)
(* fetched with last_sent_at set and finished with its update applied,   *)
(* every public project that matches the watch's filters and was created *)
(* after the fetched last_sent_at is listed in the run's digest for the  *)
(* watch or not created before the last_sent_at now stored, so that a    *)
(* later run's window can still hold it.                                 *)

RangeOf(seq) == {seq[k] : k \in 1..Len(seq)}

ReportedBy(r, id) == UNION {RangeOf(m.mail.listed) : m \in MailsOf(r, id)}

C25_NoProjectLost ==
    \A r \in RunIds :
        \A k \in 1..Len(runs[r].watches) :
            LET run == runs[r]
                w == run.watches[k]
            IN  (/\ run.pc = "done"
                 /\ w.last_sent_at # NullTime
                 /\ run.outcome[w.id] \in {"sent", "zero"}
                 /\ run.ans[w.id].up = "ok"
                 /\ saved_searches[w.id] # NoRow
                 /\ saved_searches[w.id].filters = w.filters
                 /\ saved_searches[w.id].last_sent_at = run.ts[w.id])
                => \A p \in ProjIds :
                      (/\ projects[p] # NoRow
                       /\ projects[p].is_public
                       /\ applyProjectFilters(projects[p], w.filters)
                       /\ projects[p].created_at > w.last_sent_at)
                      => \/ p \in ReportedBy(r, w.id)
                         \/ projects[p].created_at >= saved_searches[w.id].last_sent_at

\* A project inserted while the run awaited its send: not in the digest,
\* and older than the last_sent_at the run then stored.
C25_Reached ==
    \E p \in ProjIds :
        /\ runs["r1"].pc = "done" /\ runs["r1"].outcome["w1"] = "sent"
        /\ runs["r1"].ans["w1"].up = "ok"
        /\ Len(runs["r1"].watches) >= 1
        /\ runs["r1"].watches[1].last_sent_at # NullTime
        /\ projects[p] # NoRow /\ projects[p].is_public
        /\ projects[p].created_at > runs["r1"].watches[1].last_sent_at
        /\ saved_searches["w1"] # NoRow
        /\ projects[p].created_at < saved_searches["w1"].last_sent_at
        /\ p \notin ReportedBy("r1", "w1")

-----------------------------------------------------------------------------
(* C26: every watch a run counts in sent has its last_sent_at advanced   *)
(* by that run: the stored value is the time the run wrote after the     *)
(* send, and the watch is not due again before a full period has passed  *)
(* since, also when the update after the send returned an error.         *)

C26_SentIsAdvanced ==
    \A r \in RunIds : \A id \in WatchIds :
        (runs[r].outcome[id] = "sent" /\ saved_searches[id] # NoRow)
        => /\ saved_searches[id].last_sent_at = runs[r].ts[id]
           /\ (now - runs[r].ts[id] < PeriodSeconds(saved_searches[id].frequency) * 1000)
                 => ~isDue(saved_searches[id].frequency,
                           saved_searches[id].last_sent_at, now)

\* A watch counted in sent whose update returned an error: still stored
\* with the last_sent_at it was fetched with, and due.
C26_Reached ==
    \E r \in RunIds : \E k \in 1..Len(runs[r].watches) :
        LET w == runs[r].watches[k]
        IN  /\ runs[r].pc = "done" /\ runs[r].sent = 1
            /\ runs[r].outcome[w.id] = "sent"
            /\ runs[r].ans[w.id].send = "ok" /\ runs[r].ans[w.id].up = "err"
            /\ saved_searches[w.id].last_sent_at = w.last_sent_at
            /\ isDue(w.frequency, saved_searches[w.id].last_sent_at, now)


(* C27: when CRON_SECRET is not configured (undefined or empty), no      *)
(* request is authorized: whatever the secret parameter is, an absent or *)
(* an empty one included, the answer is 401 and nothing is processed.    *)
C27_UnconfiguredSecret ==
    \A r \in RunIds :
        LET run == runs[r] IN
        (/\ run.inv >= 1
         /\ env.CRON_SECRET \in {Undefined, ""})
        => /\ run.pc = "done"
           /\ run.status = 401
           /\ run.watches = <<>>
           /\ run.checked = 0
           /\ run.sent = 0
           /\ \A id \in WatchIds :
                /\ run.ans[id] = NoAnswers
                /\ run.ts[id] = NullTime
                /\ MailsOf(r, id) = {}
           /\ outbox = {}

\* CRON_SECRET is the empty string and a request came with an empty secret
\* parameter, so parameter and setting are equal; it was answered 401 while
\* a due enabled watch was stored.
C27_Witness ==
    \E r \in RunIds : \E id \in WatchIds :
        /\ env.CRON_SECRET = ""
        /\ runs[r].inv >= 1
        /\ runs[r].secret = ""
        /\ runs[r].status = 401
        /\ saved_searches[id] # NoRow
        /\ saved_searches[id].is_enabled
        /\ isDue(saved_searches[id].frequency, saved_searches[id].last_sent_at, now)


-----------------------------------------------------------------------------
(* C28: the admin area fails closed: when ADMIN_EMAILS is unset, empty   *)
(* or holds only blank entries, and whenever the authenticated user has  *)
(* no email, no request to a path under /dashboard is passed through.    *)

NoAdminConfigured ==
    \/ env.ADMIN_EMAILS = UndefinedText
    \/ LET entries == Split(env.ADMIN_EMAILS)
       IN  \A k \in 1..Len(entries) : Trim(entries[k]) = <<>>

NoEmail(email) == email \in {NullText, <<>>}

C28_FailsClosed ==
    (/\ mw.pc = "done"
     /\ StartsWith(mw.pathname, DashboardPath)
     /\ (NoAdminConfigured \/ (mw.auth = "user" /\ NoEmail(mw.email))))
    => mw.returned.kind = "redirect"

\* A user without an email asked for /dashboard while ADMIN_EMAILS has an
\* empty entry next to a real one, and was sent to /projects.
C28_Witness ==
    /\ mw.pc = "done" /\ mw.pathname = DashboardPath
    /\ mw.auth = "user" /\ mw.email = <<>>
    /\ env.ADMIN_EMAILS = <<"c", "@", "x", ",", ",">>
    /\ mw.returned.kind = "redirect" /\ mw.returned.pathname = ProjectsPath


-----------------------------------------------------------------------------
(* C29: the middleware's redirects never loop: from any request and any  *)
(* fixed auth state, following the redirects reaches a response that is  *)
(* not a redirect after at most one redirect: an anonymous visitor lands *)
(* on /login, which the matcher does not select, and a signed-in user    *)
(* who is no admin lands on /projects, which passes.                     *)

C29_NoRedirectLoop ==
    /\ mw.hops <= 1
    /\ (mw.hops = 1 /\ mw.pc = "done") => mw.returned.kind = "next"
    /\ mw.pc = "page" => (mw.pathname = LoginPath /\ mw.auth \in {"error", "nouser"})
    /\ (mw.hops = 1 /\ mw.pc \in {"await", "done"})
          => (mw.pathname = ProjectsPath /\ mw.auth = "user")

\* A signed-in user who is no admin asked for a page under /dashboard, was
\* redirected, and the followed request to /projects passed.
C29_Witness ==
    /\ mw.hops = 1 /\ mw.pc = "done"
    /\ mw.pathname = ProjectsPath
    /\ mw.auth = "user" /\ mw.email = <<"c", "@", "x">>
    /\ mw.search = {<<"next", <<"/", "e">>>>}
    /\ mw.returned.kind = "next"


-----------------------------------------------------------------------------
(* C30: the watchlist page's optimistic updates stay consistent with the *)
(* store: once every remove, toggleEnabled, changeFrequency and saveName *)
(* request has completed, in any interleaving of overlapping requests    *)
(* and any mix of success and failure, the list the page shows equals    *)
(* the stored one; a failed delete's rollback does not bring back a      *)
(* watch whose own delete succeeded meanwhile. Checked for a page whose  *)
(* latest load succeeded and that has nothing in flight.                 *)

AllCompleted ==
    /\ watchlist.calls = <<>>
    /\ ~watchlist.loading
    /\ watchlist.loaded

C30_ListEqualsStore == AllCompleted => watchlist.items = StoredItems

\* Everything has completed, the last thing reported is a failed delete,
\* and the page lists a watch the store no longer holds.
C30_Reached ==
    /\ AllCompleted
    /\ watchlist.error = "delete"
    /\ \E id \in ItemIds(watchlist.items) : saved_searches[id] = NoRow

====
